---- MODULE Spec2Model ----
(***************************************************************************)
(* A model of TableFactory (src/TableFactory/): the layout classes         *)
(* StyleAttributes, Cell, TableRow, ColumnSpec and RowSpec, the value      *)
(* conversion TableBase._cast and the per-cell rendering of the HTML, PDF  *)
(* and spreadsheet table generators.                                       *)
(*                                                                         *)
(* Python values are records [t, n, s]: t is the type tag, n the number    *)
(* of an int or bool (or the identity of an object), s the characters of   *)
(* a str (or the one-character element names of a tuple of names).         *)
(***************************************************************************)
EXTENDS Integers, Sequences, FiniteSets, TLC

VARIABLES
    style,        \* StyleAttributes: the StyleAttributes object under inspection
    column,       \* ColumnSpec: the ColumnSpec last constructed
    key,          \* the option name last read through StyleAttributes.__getattr__
    got,          \* what that read returned
    given,        \* the arguments of the constructor call that made style / column
    spc,          \* position of the StyleAttributes / ColumnSpec scenario
    columnspecs,  \* RowSpec.columnspecs
    rowobjects,   \* the source objects handed to RowSpec.__call__ / makeall
    output,       \* what the call returned: a TableRow, or a list of TableRows
    raised,       \* the exception the call raised to its caller ("" when none)
    rpc,          \* position of the RowSpec scenario
    cell,         \* Cell: the cell handed to the renderers
    rendered,     \* what the renderer made of the cell, or the exception it raised
    styletypemap, \* SpreadsheetTable.styletypemap: the class-level tables of styles
    cpc,          \* position of the cell rendering scenario
    ctor,         \* the class and the arguments of the table generator's constructor call
    renderer,     \* the table generator: its title, explanation and headers
    rowsetsarg,   \* the rowsets handed to render
    result,       \* what render returned, or the exception it raised
    mapbefore,    \* styletypemap as that render call found it
    tpc,          \* position of the table rendering scenario
    castfunctions, \* TableBase.castfunctions: the class-level dict of formatters
    castcell,     \* the cell handed to _cast
    casted,       \* what _cast returned
    kpc,          \* position of the _cast scenario
    stylecell,    \* the cell handed to _getstyle
    styled,       \* the style _getstyle returned
    cachebefore   \* styletypemap as that _getstyle call found it

styleVars == <<style, column, key, got, given, spc>>
rowVars == <<columnspecs, rowobjects, output, raised, rpc>>
cellVars == <<cell, rendered, styletypemap, cpc>>
tableVars == <<ctor, renderer, rowsetsarg, result, mapbefore, tpc>>
castVars == <<castfunctions, castcell, casted, kpc>>
cacheVars == <<stylecell, styled, cachebefore>>
vars == <<style, column, key, got, given, spc, columnspecs, rowobjects, output, raised, rpc,
          cell, rendered, styletypemap, cpc, ctor, renderer, rowsetsarg, result, mapbefore,
          tpc, castfunctions, castcell, casted, kpc, stylecell, styled, cachebefore>>

(***************************************************************************)
(* Bounds of the model.                                                    *)
(***************************************************************************)
MaxSpan == 3
MaxWidth == 2
MaxCols == 2
MaxRecords == 2
MaxStrLen == 2
MaxHeaderRows == 2
MaxRowsets == 2

(***************************************************************************)
(* Python values.                                                          *)
(***************************************************************************)
None == [t |-> "None", n |-> 0, s |-> <<>>]
IntVal(i) == [t |-> "int", n |-> i, s |-> <<>>]
BoolVal(b) == [t |-> "bool", n |-> IF b THEN 1 ELSE 0, s |-> <<>>]
StrVal(chars) == [t |-> "str", n |-> 0, s |-> chars]
TupleVal(names) == [t |-> "tuple", n |-> 0, s |-> names]
RefVal(id) == [t |-> "object", n |-> id, s |-> <<>>]
\* decimal.Decimal(text) for a plain decimal numeral: s keeps the digits as written
DecimalVal(chars) == [t |-> "Decimal", n |-> 0, s |-> chars]
\* a keyword argument that was not passed (not a Python value)
Absent == [t |-> "absent", n |-> 0, s |-> <<>>]

\* Python's truth value of a value: None, False, 0, '' and () are false
Truthy(v) ==
    CASE v.t = "None" -> FALSE
      [] v.t \in {"int", "bool"} -> v.n # 0
      [] v.t \in {"str", "tuple"} -> Len(v.s) > 0
      [] OTHER -> TRUE

\* reportlab.lib.units.inch: points per inch
inch == 72

\* dict.get(key, None) on a dict modelled as a function from its keys
DictGet(d, k) == IF k \in DOMAIN d THEN d[k] ELSE None

(***************************************************************************)
(* StyleAttributes                                                         *)
(***************************************************************************)
\* StyleAttributes.__init__(**properties)
StyleAttributes(properties) == [properties |-> properties]

GetAttrWidthUnscaled(self, k) ==
    LET value == DictGet(self.properties, k)
    IN  IF k = "span" /\ value = None THEN IntVal(1)
        ELSE value

GetAttrSpanAlwaysOne(self, k) ==
    LET value == DictGet(self.properties, k)
    IN  IF k = "width" /\ value # None THEN IntVal(value.n * inch)
        ELSE IF k = "span" THEN IntVal(1)
        ELSE value

\* StyleAttributes.__getattr__(key)
StyleGetAttr(self, k) ==
    LET value == DictGet(self.properties, k)
    IN  IF k = "width" /\ value # None THEN IntVal(value.n * inch)
        ELSE IF k = "span" /\ value = None THEN IntVal(1)
        ELSE value

(***************************************************************************)
(* ColumnSpec                                                              *)
(***************************************************************************)
\* the elements of a tuple of names, each a str
TupleElements(tuple) == [i \in 1..Len(tuple.s) |-> StrVal(<<tuple.s[i]>>)]

ColumnSpecInitTitleOnlyIfNone(attribute, title, properties) ==
    [attributes |-> IF attribute.t = "tuple" THEN TupleElements(attribute)
                    ELSE <<attribute>>,
     title |-> IF title # None THEN title ELSE attribute,
     style |-> StyleAttributes(properties)]

\* ColumnSpec.__init__(attribute, title=None, **properties)
ColumnSpecInit(attribute, title, properties) ==
    [attributes |-> IF attribute.t = "tuple" THEN TupleElements(attribute)
                    ELSE <<attribute>>,
     title |-> IF Truthy(title) THEN title ELSE attribute,
     style |-> StyleAttributes(properties)]

(***************************************************************************)
(* The StyleAttributes / ColumnSpec scenario: an object is constructed     *)
(* from keyword arguments, then its options are read.                      *)
(***************************************************************************)
Names == {"x", "y"}
MaxPath == 2
OptionNames == {"bold", "money", "raw", "span", "width", "color"}
Flags == {Absent, BoolVal(TRUE), BoolVal(FALSE)}
Spans == {Absent, None} \cup {IntVal(i) : i \in 1..MaxSpan}
Widths == {Absent, None} \cup {IntVal(i) : i \in 0..MaxWidth}
Colors == {Absent, StrVal(<<"r">>)}

\* the dict of the keyword arguments that were passed
Kwargs(choice) == [k \in {o \in DOMAIN choice : choice[o] # Absent} |-> choice[k]]
EmptyDict == Kwargs([o \in {"bold"} |-> Absent])

Paths == UNION {[1..l -> Names] : l \in 1..MaxPath}
\* 'attribute': one name, or a tuple of names
AttributeArgs == {StrVal(<<a>>) : a \in Names} \cup {TupleVal(p) : p \in Paths}
TitleArgs == {None, StrVal(<<>>), StrVal(<<"T">>)}
ColumnKwargs == {EmptyDict,
                 Kwargs([o \in {"bold"} |-> BoolVal(TRUE)]),
                 Kwargs([o \in {"money", "span"} |->
                            IF o = "money" THEN BoolVal(TRUE) ELSE IntVal(2)]),
                 Kwargs([o \in {"width"} |-> IntVal(1)]),
                 Kwargs([o \in {"raw"} |-> BoolVal(TRUE)])}

NoColumn == ColumnSpecInit(StrVal(<<>>), None, EmptyDict)
NoArgs == [attribute |-> None, title |-> None]

InitStyle ==
    /\ style = StyleAttributes(EmptyDict)
    /\ column = NoColumn
    /\ key = ""
    /\ got = None
    /\ given = NoArgs
    /\ spc = "start"

\* StyleAttributes(**properties)
NewStyleAttributes ==
    /\ spc = "start"
    /\ \E b \in Flags, m \in Flags, r \in Flags, sp \in Spans, w \in Widths, c \in Colors :
          style' = StyleAttributes(Kwargs(
                       [o \in OptionNames |->
                           CASE o = "bold" -> b [] o = "money" -> m [] o = "raw" -> r
                             [] o = "span" -> sp [] o = "width" -> w [] OTHER -> c]))
    /\ spc' = "style"
    /\ UNCHANGED <<column, key, got, given>>

\* ColumnSpec(attribute, title, **properties)
NewColumnSpec ==
    /\ spc = "start"
    /\ \E attribute \in AttributeArgs, title \in TitleArgs, properties \in ColumnKwargs :
          /\ column' = ColumnSpecInit(attribute, title, properties)
          /\ given' = [attribute |-> attribute, title |-> title]
    /\ style' = column'.style
    /\ spc' = "column"
    /\ UNCHANGED <<key, got>>

\* style.<key>
ReadOption ==
    /\ spc \in {"style", "column"}
    /\ \E k \in OptionNames :
          /\ key' = k
          /\ got' = StyleGetAttr(style, k)
    /\ UNCHANGED <<style, column, given, spc>>

(***************************************************************************)
(* Source objects ("row objects").  An object offers a mapping protocol    *)
(* (getitem: "mapping" looks the key up in item and raises KeyError when   *)
(* it is missing; "none" has no __getitem__, so subscripting it raises     *)
(* TypeError; "sequence" raises IndexError) and attributes (attr).         *)
(***************************************************************************)
Dict(xs, ys) == [k \in {StrVal(<<"x">>), StrVal(<<"y">>)} |->
                    IF k = StrVal(<<"x">>) THEN xs ELSE ys]
OnlyX(xs) == [k \in {StrVal(<<"x">>)} |-> xs]
NoKeys == [k \in {} |-> None]

Heap ==
    <<  \* 1: the dict {'x': 8, 'y': 5}
        [getitem |-> "mapping", item |-> Dict(IntVal(8), IntVal(5)), attr |-> NoKeys],
        \* 2: a plain object with attributes x = 6, y = None
        [getitem |-> "none", item |-> NoKeys, attr |-> Dict(IntVal(6), None)],
        \* 3: a result row: key 'x' -> 5, attributes x = 7 and y = 9
        [getitem |-> "mapping", item |-> OnlyX(IntVal(5)), attr |-> Dict(IntVal(7), IntVal(9))],
        \* 4: the dict {'x': {'x': 8, 'y': 5}, 'y': <object 2>}
        [getitem |-> "mapping", item |-> Dict(RefVal(1), RefVal(2)), attr |-> NoKeys],
        \* 5: a plain object with attributes x = <row 3>, y = <dict 4>
        [getitem |-> "none", item |-> NoKeys, attr |-> Dict(RefVal(3), RefVal(4))],
        \* 6: a sequence-like object: its __getitem__ raises IndexError, and it has
        \*    no attribute x or y
        [getitem |-> "sequence", item |-> NoKeys, attr |-> NoKeys],
        \* 7: the dict {'x': 1, 'y': Decimal('12.50')}
        [getitem |-> "mapping",
         item |-> Dict(IntVal(1), DecimalVal(<<"1", "2", ".", "5", "0">>)),
         attr |-> NoKeys] >>

\* the objects the RowSpec scenario is run on; the dict 7 is the record of a table
LedgerRecord == RefVal(7)
RowObjects == {RefVal(i) : i \in DOMAIN Heap} \ {LedgerRecord}

\* the outcome of an expression: a value, or the exception it raises
Return(v) == [exc |-> "", value |-> v]
Raise(e) == [exc |-> e, value |-> None]

\* value[attribute]
GetItem(value, attribute) ==
    IF value.t # "object" THEN Raise("TypeError")
    ELSE LET obj == Heap[value.n]
         IN  CASE obj.getitem = "mapping" ->
                    IF attribute \in DOMAIN obj.item THEN Return(obj.item[attribute])
                    ELSE Raise("KeyError")
               [] obj.getitem = "none" -> Raise("TypeError")
               [] OTHER -> Raise("IndexError")

\* getattr(value, attribute)
GetAttr(value, attribute) ==
    IF value.t # "object" THEN Raise("AttributeError")
    ELSE LET obj == Heap[value.n]
         IN  IF attribute \in DOMAIN obj.attr THEN Return(obj.attr[attribute])
             ELSE Raise("AttributeError")

LookupAttributeFirst(value, attribute) ==
    LET byattr == GetAttr(value, attribute)
    IN  IF byattr.exc = "" THEN byattr ELSE GetItem(value, attribute)

\* try: value = value[attribute]
\* except (KeyError, TypeError): value = getattr(value, attribute)
Lookup(value, attribute) ==
    LET bykey == GetItem(value, attribute)
    IN  IF bykey.exc \in {"KeyError", "TypeError"} THEN GetAttr(value, attribute)
        ELSE bykey

ResolveOnRowObject(value, attributes) ==
    LET RECURSIVE Loop(_, _)
        Loop(last, rest) ==
            IF rest = <<>> THEN last
            ELSE LET step == Lookup(value, Head(rest))
                 IN  IF step.exc # "" THEN step ELSE Loop(step, Tail(rest))
    IN  Loop(Return(value), attributes)

\* the inner loop of RowSpec.__call__: for attribute in column.attributes
RECURSIVE Resolve(_, _)
Resolve(value, attributes) ==
    IF attributes = <<>> THEN Return(value)
    ELSE LET step == Lookup(value, Head(attributes))
         IN  IF step.exc # "" THEN step
             ELSE Resolve(step.value, Tail(attributes))

\* Cell(value, style=None)
Cell(value, cellstyle) ==
    [value |-> value,
     style |-> IF cellstyle = None THEN StyleAttributes(EmptyDict) ELSE cellstyle]
\* TableRow(*cells)
TableRow(cells) == [cells |-> cells]

RECURSIVE CallLoop(_, _, _)
CallLoop(specs, rowobject, out) ==
    IF specs = <<>> THEN Return(TableRow(out))
    ELSE LET col == Head(specs)
             r == Resolve(rowobject, col.attributes)
         IN  IF r.exc # "" THEN Raise(r.exc)
             ELSE CallLoop(Tail(specs), rowobject, Append(out, Cell(r.value, col.style)))

RowSpecCallPartial(specs, rowobject) ==
    LET RECURSIVE Upto(_, _)
        Upto(cs, out) ==
            IF cs = <<>> THEN out
            ELSE LET r == Resolve(rowobject, Head(cs).attributes)
                 IN  IF r.exc # "" THEN out
                     ELSE Upto(Tail(cs), Append(out, Cell(r.value, Head(cs).style)))
    IN  Return(TableRow(Upto(specs, <<>>)))

RowSpecCallSharedStyle(specs, rowobject) ==
    LET whole == CallLoop(specs, rowobject, <<>>)
    IN  IF whole.exc # "" THEN whole
        ELSE Return(TableRow([i \in 1..Len(specs) |->
                Cell(whole.value.cells[i].value, specs[1].style)]))

\* RowSpec.__call__(rowobject)
RowSpecCall(specs, rowobject) == CallLoop(specs, rowobject, <<>>)

MakeallDropFailed(specs, objs) ==
    LET RECURSIVE Loop(_, _)
        Loop(rest, out) ==
            IF rest = <<>> THEN out
            ELSE LET r == RowSpecCall(specs, Head(rest))
                 IN  Loop(Tail(rest), IF r.exc # "" THEN out ELSE Append(out, r.value))
    IN  [exc |-> "", value |-> Loop(objs, <<>>)]

MakeallReversed(specs, objs) ==
    LET RECURSIVE Loop(_, _)
        Loop(rest, out) ==
            IF rest = <<>> THEN [exc |-> "", value |-> out]
            ELSE LET r == RowSpecCall(specs, Head(rest))
                 IN  IF r.exc # "" THEN [exc |-> r.exc, value |-> <<>>]
                     ELSE Loop(Tail(rest), <<r.value>> \o out)
    IN  Loop(objs, <<>>)

\* RowSpec.makeall(rowobjects): [self(rowobject) for rowobject in rowobjects]
Makeall(specs, objs) ==
    LET RECURSIVE Loop(_, _)
        Loop(rest, out) ==
            IF rest = <<>> THEN [exc |-> "", value |-> out]
            ELSE LET r == RowSpecCall(specs, Head(rest))
                 IN  IF r.exc # "" THEN [exc |-> r.exc, value |-> <<>>]
                     ELSE Loop(Tail(rest), Append(out, r.value))
    IN  Loop(objs, <<>>)

(***************************************************************************)
(* The RowSpec scenario: a RowSpec is constructed from ColumnSpecs, then   *)
(* called on one source object, or on a list of them through makeall.      *)
(***************************************************************************)
\* every path with the default style, and two bold columns
RowColumnSpecs ==
    {ColumnSpecInit(a, None, EmptyDict) : a \in AttributeArgs} \cup
    {ColumnSpecInit(a, None, Kwargs([o \in {"bold"} |-> BoolVal(TRUE)])) :
        a \in {StrVal(<<"x">>), TupleVal(<<"y", "x">>)}}
SeqsUpTo(S, n) == UNION {[1..l -> S] : l \in 0..n}

InitRow ==
    /\ columnspecs = <<>>
    /\ rowobjects = <<>>
    /\ output = <<>>
    /\ raised = ""
    /\ rpc = "start"

\* RowSpec(*columnspecs)
NewRowSpec ==
    /\ rpc = "start"
    /\ columnspecs' \in SeqsUpTo(RowColumnSpecs, MaxCols)
    /\ rpc' = "rowspec"
    /\ UNCHANGED <<rowobjects, output, raised>>

\* rowspec(rowobject)
CallRowSpec ==
    /\ rpc = "rowspec"
    /\ \E rowobject \in RowObjects :
          LET r == RowSpecCall(columnspecs, rowobject)
          IN  /\ rowobjects' = <<rowobject>>
              /\ raised' = r.exc
              /\ output' = IF r.exc = "" THEN <<r.value>> ELSE <<>>
    /\ rpc' = "called"
    /\ UNCHANGED columnspecs

\* rowspec.makeall(rowobjects)
CallMakeall ==
    /\ rpc = "rowspec"
    /\ \E objs \in SeqsUpTo(RowObjects, MaxRecords) :
          LET r == Makeall(columnspecs, objs)
          IN  /\ rowobjects' = objs
              /\ raised' = r.exc
              /\ output' = r.value
    /\ rpc' = "madeall"
    /\ UNCHANGED columnspecs

(***************************************************************************)
(* Text.  A str is the sequence of its characters.                         *)
(***************************************************************************)
\* str.replace(old, new) for a one-character old
RECURSIVE Replace(_, _, _)
Replace(chars, old, new) ==
    IF chars = <<>> THEN <<>>
    ELSE (IF Head(chars) = old THEN new ELSE <<Head(chars)>>) \o Replace(Tail(chars), old, new)

DecimalDigits == <<"0", "1", "2", "3", "4", "5", "6", "7", "8", "9">>
RECURSIVE Decimal(_)
Decimal(i) ==
    IF i < 10 THEN <<DecimalDigits[i + 1]>>
    ELSE Decimal(i \div 10) \o <<DecimalDigits[(i % 10) + 1]>>

\* repr of a tuple of names: "('y', 'x')", and "('x',)" for a single name
RECURSIVE TupleItems(_)
TupleItems(names) ==
    IF names = <<>> THEN <<>>
    ELSE <<"'", Head(names), "'">>
         \o (IF Len(names) > 1 THEN <<",", " ">> \o TupleItems(Tail(names)) ELSE <<>>)
TupleRepr(names) ==
    <<"(">> \o TupleItems(names) \o (IF Len(names) = 1 THEN <<",">> ELSE <<>>) \o <<")">>

\* unicode(value), also what '%s' % value gives: the text of a value
Unicode(value) ==
    CASE value.t = "str" -> value.s
      [] value.t = "int" -> Decimal(value.n)
      [] value.t = "Decimal" -> value.s
      [] value.t = "tuple" -> TupleRepr(value.s)
      [] value.t = "bool" -> IF value.n = 1 THEN <<"T", "r", "u", "e">>
                             ELSE <<"F", "a", "l", "s", "e">>
      [] OTHER -> <<"N", "o", "n", "e">>

CgiEscapeAmpersandLast(chars) ==
    Replace(Replace(Replace(chars, "<", <<"&", "l", "t", ";">>),
                    ">", <<"&", "g", "t", ";">>),
            "&", <<"&", "a", "m", "p", ";">>)

\* cgi.escape(s): '&' first, then '<' and '>'
CgiEscape(chars) ==
    Replace(Replace(Replace(chars, "&", <<"&", "a", "m", "p", ";">>),
                    "<", <<"&", "l", "t", ";">>),
            ">", <<"&", "g", "t", ";">>)

(***************************************************************************)
(* TableBase._cast and the renderers' treatment of one cell                *)
(***************************************************************************)
CastIgnoresRaw(c) ==
    LET value == c.value
    IN  IF value = None THEN StrVal(<<>>)
        ELSE StrVal(CgiEscape(Unicode(value)))

CastWithoutEscape(c) ==
    LET value == c.value
    IN  IF Truthy(StyleGetAttr(c.style, "raw")) THEN value
        ELSE IF value = None THEN StrVal(<<>>)
        ELSE StrVal(Unicode(value))

\* TableBase.castfunctions as the class is defined: {}
CastFunctionsInit == EmptyDict

\* castfunction(value) for the formatters of the model: 'angle' is
\* lambda v: u'<%s>' % v, 'amp' is lambda v: u'&%s' % v, and 'unicode' is unicode
CallCastFunction(castfunction, value) ==
    CASE castfunction = "angle" -> <<"<">> \o Unicode(value) \o <<">">>
      [] castfunction = "amp" -> <<"&">> \o Unicode(value)
      [] OTHER -> Unicode(value)

CastWithEscapeBeforeFormat(functions, c) ==
    LET value == c.value
        castfunction == IF value.t \in DOMAIN functions THEN functions[value.t] ELSE "unicode"
    IN  IF Truthy(StyleGetAttr(c.style, "raw")) THEN value
        ELSE IF value = None THEN StrVal(<<>>)
        ELSE StrVal(CallCastFunction(castfunction, StrVal(CgiEscape(Unicode(value)))))

\* TableBase._cast(cell), self.castfunctions being functions: a dict from the type of
\* a value (the t of the model's value) to a formatter
CastWith(functions, c) ==
    LET value == c.value
        castfunction == IF value.t \in DOMAIN functions THEN functions[value.t] ELSE "unicode"
    IN  IF Truthy(StyleGetAttr(c.style, "raw")) THEN value
        ELSE IF value = None THEN StrVal(<<>>)
        ELSE StrVal(CgiEscape(CallCastFunction(castfunction, value)))

\* TableBase._cast(cell) of the three table generators, which leave castfunctions
\* as TableBase defines it, so that castfunction is unicode
Cast(c) == CastWith(CastFunctionsInit, c)

\* HTMLTable.cssdefs
cssdefs == [bold |-> "cell_bold", money |-> "cell_money", table |-> "reporttable",
            childrow |-> "expand-child", zebra |-> <<"odd", "even">>]

HTMLRenderCellMoneyFirst(c) ==
    LET cssclasses == (IF Truthy(StyleGetAttr(c.style, "money")) THEN <<cssdefs.money>>
                       ELSE <<>>)
                      \o (IF Truthy(StyleGetAttr(c.style, "bold")) THEN <<cssdefs.bold>>
                          ELSE <<>>)
        colspan == StyleGetAttr(c.style, "span")
        text == Cast(c)
    IN  IF text.t # "str" THEN Raise("AttributeError")
        ELSE Return([classes |-> cssclasses,
                     colspan |-> IF colspan.n > 1 THEN colspan.n ELSE 0,
                     content |-> Replace(text.s, "\r", <<"<", "b", "r", " ", "/", ">">>)])

\* HTMLTable._rendercell(cell): the element '<td%s%s>%s</td>', given by the classes of
\* its class attribute, its colspan attribute (0: none) and its content; calling
\* .replace on what _cast returned raises AttributeError unless that is a str
HTMLRenderCellValue(c) ==
    LET cssclasses == (IF Truthy(StyleGetAttr(c.style, "bold")) THEN <<cssdefs.bold>> ELSE <<>>)
                      \o (IF Truthy(StyleGetAttr(c.style, "money")) THEN <<cssdefs.money>>
                          ELSE <<>>)
        colspan == StyleGetAttr(c.style, "span")
        text == Cast(c)
    IN  IF text.t # "str" THEN Raise("AttributeError")
        ELSE Return([classes |-> cssclasses,
                     colspan |-> IF colspan.n > 1 THEN colspan.n ELSE 0,
                     content |-> Replace(text.s, "\r", <<"<", "b", "r", " ", "/", ">">>)])

\* PDFTable._rendercell(cell): the Paragraph, given by its text and its style; what
\* reportlab makes of a text that is not a str is outside this model
PDFRenderCellValue(c) ==
    LET value == Cast(c)
        text == IF Truthy(StyleGetAttr(c.style, "bold"))
                THEN StrVal(<<"<", "b", ">">> \o Unicode(value) \o <<"<", "/", "b", ">">>)
                ELSE value
    IN  Return([text |-> text,
                style |-> IF Truthy(StyleGetAttr(c.style, "money"))
                          THEN "contentmoneycellstyle" ELSE "contentcellstyle"])

\* an xlwt style: its number format, font.bold and alignment.horz
XFStyle(format) == [num_format_str |-> format, bold |-> 0, horz |-> "general"]
\* the key None of a table of styles; the other keys are tuples of attribute names
NoneKey == <<"None">>
\* SpreadsheetTable.styletypemap as the class is defined
StyleTypeMapInit ==
    [typ \in {"None", "date", "datetime"} |->
        [k \in {NoneKey} |->
            XFStyle(CASE typ = "date" -> "YYYY-MM-DD"
                      [] typ = "datetime" -> "YYYY-MM-DD HH:MM:SS"
                      [] OTHER -> "General")]]

\* tuple(sorted(attrs))
SortedAttrs(c) ==
    (IF Truthy(StyleGetAttr(c.style, "bold")) THEN <<"bold">> ELSE <<>>)
    \o (IF Truthy(StyleGetAttr(c.style, "money")) THEN <<"money">> ELSE <<>>)

\* the key of styletypemap that type(cell.value) selects: the type itself when it
\* is a key, else (KeyError) None
StyleTypeKey(c, map) == IF c.value.t \in DOMAIN map THEN c.value.t ELSE "None"

GetStyleOnDefault(c, map) ==
    LET typ == StyleTypeKey(c, map)
        cellstyles == map[typ]
        attrs == SortedAttrs(c)
        default == cellstyles[NoneKey]
        cellstyle == [num_format_str |-> IF "money" \in {attrs[i] : i \in DOMAIN attrs}
                                         THEN "0.00" ELSE default.num_format_str,
                      bold |-> IF "bold" \in {attrs[i] : i \in DOMAIN attrs}
                               THEN 1 ELSE default.bold,
                      horz |-> IF "money" \in {attrs[i] : i \in DOMAIN attrs}
                               THEN "right" ELSE default.horz]
    IN  IF attrs \in DOMAIN cellstyles
        THEN [style |-> cellstyles[attrs], map |-> map]
        ELSE [style |-> cellstyle,
              map |-> [map EXCEPT ![typ] =
                          [k \in DOMAIN cellstyles \cup {attrs} |-> cellstyle]]]

GetStyleMoneyKeepsFormat(c, map) ==
    LET typ == StyleTypeKey(c, map)
        cellstyles == map[typ]
        attrs == SortedAttrs(c)
        default == cellstyles[NoneKey]
        cellstyle == [num_format_str |-> default.num_format_str,
                      bold |-> IF "bold" \in {attrs[i] : i \in DOMAIN attrs}
                               THEN 1 ELSE default.bold,
                      horz |-> IF "money" \in {attrs[i] : i \in DOMAIN attrs}
                               THEN "right" ELSE default.horz]
    IN  IF attrs \in DOMAIN cellstyles
        THEN [style |-> cellstyles[attrs], map |-> map]
        ELSE [style |-> cellstyle,
              map |-> [map EXCEPT ![typ] =
                          [k \in DOMAIN cellstyles \cup {attrs} |->
                              IF k = attrs THEN cellstyle ELSE cellstyles[k]]]]

\* SpreadsheetTable._getstyle(cell): the style returned and the map afterwards
GetStyle(c, map) ==
    LET typ == StyleTypeKey(c, map)
        cellstyles == map[typ]
        attrs == SortedAttrs(c)
        default == cellstyles[NoneKey]
        cellstyle == [num_format_str |-> IF "money" \in {attrs[i] : i \in DOMAIN attrs}
                                         THEN "0.00" ELSE default.num_format_str,
                      bold |-> IF "bold" \in {attrs[i] : i \in DOMAIN attrs}
                               THEN 1 ELSE default.bold,
                      horz |-> IF "money" \in {attrs[i] : i \in DOMAIN attrs}
                               THEN "right" ELSE default.horz]
    IN  IF attrs \in DOMAIN cellstyles
        THEN [style |-> cellstyles[attrs], map |-> map]
        ELSE [style |-> cellstyle,
              map |-> [map EXCEPT ![typ] =
                          [k \in DOMAIN cellstyles \cup {attrs} |->
                              IF k = attrs THEN cellstyle ELSE cellstyles[k]]]]

\* row.write(colnum, cell.value, self._getstyle(cell)) of SpreadsheetTable.render:
\* the value is written as it is (xlwt leaves the cell of a None blank)
SpreadsheetWriteCellValue(c, map) ==
    Return([value |-> c.value, style |-> GetStyle(c, map).style])

(***************************************************************************)
(* The cell scenario: a Cell is made and one of the three table generators *)
(* renders it.                                                             *)
(***************************************************************************)
Alphabet == {"<", ">", "&", "a", "\r"}
Example == <<"<", "b", ">", "x", "<", "/", "b", ">">>
CellValues == {None, IntVal(5), IntVal(12), StrVal(Example)}
                  \cup {StrVal(w) : w \in SeqsUpTo(Alphabet, MaxStrLen)}
CellStyles ==
    {None} \cup
    {StyleAttributes(Kwargs([o \in {"raw", "bold", "money", "span"} |->
                                CASE o = "raw" -> r [] o = "bold" -> b
                                  [] o = "money" -> m [] OTHER -> sp])) :
        r \in Flags, b \in {Absent, BoolVal(TRUE)}, m \in {Absent, BoolVal(TRUE)},
        sp \in {Absent, IntVal(2)}}

\* Cell(value, style)
NewCell ==
    /\ cpc = "start"
    /\ \E value \in CellValues, cellstyle \in CellStyles : cell' = Cell(value, cellstyle)
    /\ rendered' = Return(None)
    /\ cpc' = "cell"
    /\ UNCHANGED styletypemap

\* HTMLTable._rendercell(cell)
HTMLRenderCell ==
    /\ cpc = "cell"
    /\ rendered' = HTMLRenderCellValue(cell)
    /\ cpc' = "html"
    /\ UNCHANGED <<cell, styletypemap>>

\* PDFTable._rendercell(cell)
PDFRenderCell ==
    /\ cpc = "cell"
    /\ rendered' = PDFRenderCellValue(cell)
    /\ cpc' = "pdf"
    /\ UNCHANGED <<cell, styletypemap>>

\* row.write(colnum, cell.value, self._getstyle(cell))
SpreadsheetWriteCell ==
    /\ cpc = "cell"
    /\ rendered' = SpreadsheetWriteCellValue(cell, styletypemap)
    /\ styletypemap' = GetStyle(cell, styletypemap).map
    /\ cpc' = "xls"
    /\ UNCHANGED cell

(***************************************************************************)
(* TableBase: a table generator holds a title, an explanation and headers. *)
(* base.py names RowSpec and cgi as the single module TableFactory.py      *)
(* binds them (base.py itself imports neither).                            *)
(*                                                                         *)
(* The headers argument is None, a RowSpec (columnspecs) or a list of      *)
(* RowSpecs (rows, each the columnspecs of one RowSpec).  A rowset is a    *)
(* TableRow (cells) or a list of TableRows (rows).                         *)
(***************************************************************************)
NoHeaders == [t |-> "None", columnspecs |-> <<>>, rows |-> <<>>]
OneRowSpec(columns) == [t |-> "RowSpec", columnspecs |-> columns, rows |-> <<>>]
RowSpecList(rowspecs) == [t |-> "list", columnspecs |-> <<>>, rows |-> rowspecs]
BareRow(row) == [t |-> "TableRow", cells |-> row.cells, rows |-> <<>>]
RowList(tablerows) == [t |-> "list", cells |-> <<>>, rows |-> tablerows]

TableBaseInitKeepsRowSpec(title, explanation, headers) ==
    [title |-> title, explanation |-> explanation, headers |-> headers]

\* TableBase.__init__(title=None, explanation=None, headers=None)
TableBaseInit(title, explanation, headers) ==
    [title |-> title,
     explanation |-> explanation,
     headers |-> IF headers.t = "RowSpec" THEN RowSpecList(<<headers.columnspecs>>)
                 ELSE headers]

\* if self.headers: None and the empty list are false; a RowSpec object is true
HasHeaders(self) ==
    CASE self.headers.t = "None" -> FALSE
      [] self.headers.t = "list" -> Len(self.headers.rows) > 0
      [] OTHER -> TRUE

SubrowsBareRowDropped(rowset) == rowset.rows

\* if isinstance(rowset, TableRow): rowset = [rowset]
Subrows(rowset) ==
    IF rowset.t = "TableRow" THEN <<TableRow(rowset.cells)>> ELSE rowset.rows

(***************************************************************************)
(* HTMLTable.render.  The output is '\n'.join(lines); a line is given by   *)
(* its element (kind), the classes of its class attribute, its colspan     *)
(* attribute (0: none) and its text content (for the table element: the    *)
(* summary attribute).                                                     *)
(***************************************************************************)
Line(kind, classes, colspan, content) ==
    [kind |-> kind, classes |-> classes, colspan |-> colspan, content |-> content]
Tag(kind) == Line(kind, <<>>, 0, <<>>)

\* the results of the passes of a loop, in order: the lines of all of them, or the
\* exception of the first pass that raises
RECURSIVE Gather(_)
Gather(outcomes) ==
    IF outcomes = <<>> THEN Return(<<>>)
    ELSE IF Head(outcomes).exc # "" THEN Head(outcomes)
    ELSE LET rest == Gather(Tail(outcomes))
         IN  IF rest.exc # "" THEN rest
             ELSE Return(Head(outcomes).value \o rest.value)

\* '<th>%s</th>' % title: a tuple on the right of % is the argument list
FormatTitle(title) ==
    IF title.t = "tuple"
    THEN IF Len(title.s) = 1 THEN Return(<<title.s[1]>>) ELSE Raise("TypeError")
    ELSE Return(Unicode(title))

HTMLHeaderCellSpanOne(headercolumn) ==
    LET span == StyleGetAttr(headercolumn.style, "span")
    IN  IF span.n >= 1
        THEN Return(<<Line("th", <<>>, span.n, Unicode(headercolumn.title))>>)
        ELSE LET text == FormatTitle(headercolumn.title)
             IN  IF text.exc # "" THEN text
                 ELSE Return(<<Line("th", <<>>, 0, text.value)>>)

\* the th line of one header column
HTMLHeaderCell(headercolumn) ==
    LET span == StyleGetAttr(headercolumn.style, "span")
    IN  IF span.n > 1
        THEN Return(<<Line("th", <<>>, span.n, Unicode(headercolumn.title))>>)
        ELSE LET text == FormatTitle(headercolumn.title)
             IN  IF text.exc # "" THEN text
                 ELSE Return(<<Line("th", <<>>, 0, text.value)>>)

\* for headercolumn in headerrow, between '<tr>' and '</tr>'
HTMLHeaderRow(headerrow) ==
    LET cells == Gather([i \in 1..Len(headerrow) |-> HTMLHeaderCell(headerrow[i])])
    IN  IF cells.exc # "" THEN cells
        ELSE Return(<<Tag("tr")>> \o cells.value \o <<Tag("/tr")>>)

HTMLHeadersReversed(self) ==
    LET rows == self.headers.rows
        body == Gather([i \in 1..Len(rows) |-> HTMLHeaderRow(rows[Len(rows) + 1 - i])])
    IN  IF ~HasHeaders(self) THEN Return(<<>>)
        ELSE IF body.exc # "" THEN body
        ELSE Return(<<Tag("thead")>> \o body.value \o <<Tag("/thead")>>)

\* if self.headers: for headerrow in self.headers; iterating a RowSpec gives its
\* ColumnSpecs, and a ColumnSpec is not iterable
HTMLHeaders(self) ==
    LET rows == self.headers.rows
        body == IF self.headers.t = "RowSpec"
                THEN IF self.headers.columnspecs = <<>> THEN Return(<<>>)
                     ELSE Raise("TypeError")
                ELSE Gather([i \in 1..Len(rows) |-> HTMLHeaderRow(rows[i])])
    IN  IF ~HasHeaders(self) THEN Return(<<>>)
        ELSE IF body.exc # "" THEN body
        ELSE Return(<<Tag("thead")>> \o body.value \o <<Tag("/thead")>>)

RowClassesPerRow(rowsetindex, subrowindex) ==
    <<cssdefs.zebra[((rowsetindex + subrowindex) % 2) + 1]>>
    \o (IF subrowindex # 0 THEN <<cssdefs.childrow>> ELSE <<>>)

RowClassesNoChild(rowsetindex, subrowindex) ==
    <<cssdefs.zebra[(rowsetindex % 2) + 1]>>

\* trclasses, for the indices enumerate() gives (from 0)
RowClasses(rowsetindex, subrowindex) ==
    <<cssdefs.zebra[(rowsetindex % 2) + 1]>>
    \o (IF subrowindex # 0 THEN <<cssdefs.childrow>> ELSE <<>>)

\* '      %s' % self._rendercell(cell)
HTMLCellLine(c) ==
    LET td == HTMLRenderCellValue(c)
    IN  IF td.exc # "" THEN td
        ELSE Return(<<Line("td", td.value.classes, td.value.colspan, td.value.content)>>)

\* for cell in subrow, between '<tr class="...">' and '</tr>'
HTMLSubrow(rowsetindex, subrowindex, subrow) ==
    LET cells == Gather([i \in 1..Len(subrow.cells) |-> HTMLCellLine(subrow.cells[i])])
    IN  IF cells.exc # "" THEN cells
        ELSE Return(<<Line("tr", RowClasses(rowsetindex, subrowindex), 0, <<>>)>>
                    \o cells.value \o <<Tag("/tr")>>)

\* for subrowindex, subrow in enumerate(rowset)
HTMLRowset(rowsetindex, rowset) ==
    LET subrows == Subrows(rowset)
    IN  Gather([j \in 1..Len(subrows) |-> HTMLSubrow(rowsetindex, j - 1, subrows[j])])

HTMLPreambleEscaped(self) ==
    (IF Truthy(self.title) THEN <<Line("h2", <<>>, 0, CgiEscape(Unicode(self.title)))>>
     ELSE <<>>)
    \o (IF Truthy(self.explanation)
        THEN <<Line("p", <<>>, 0, CgiEscape(Unicode(self.explanation)))>> ELSE <<>>)
    \o (IF Truthy(self.title)
        THEN <<Line("table", <<cssdefs.table>>, 0, CgiEscape(Unicode(self.title)))>>
        ELSE <<Line("table", <<cssdefs.table>>, 0, <<>>)>>)

\* the lines before the header: title, explanation and the table element
HTMLPreamble(self) ==
    (IF Truthy(self.title) THEN <<Line("h2", <<>>, 0, Unicode(self.title))>> ELSE <<>>)
    \o (IF Truthy(self.explanation)
        THEN <<Line("p", <<>>, 0, Unicode(self.explanation))>> ELSE <<>>)
    \o (IF Truthy(self.title)
        THEN <<Line("table", <<cssdefs.table>>, 0, Unicode(self.title))>>
        ELSE <<Line("table", <<cssdefs.table>>, 0, <<>>)>>)

HTMLRenderReturnsPartial(self, rowsets) ==
    LET head == HTMLHeaders(self)
        body == Gather([i \in 1..Len(rowsets) |-> HTMLRowset(i - 1, rowsets[i])])
    IN  IF head.exc # "" THEN Return(HTMLPreamble(self))
        ELSE IF body.exc # "" THEN Return(HTMLPreamble(self) \o head.value \o <<Tag("tbody")>>)
        ELSE Return(HTMLPreamble(self) \o head.value \o <<Tag("tbody")>> \o body.value
                    \o <<Tag("/tbody"), Tag("/table")>>)

HTMLRenderValidatesWidth(self, rowsets) ==
    LET head == HTMLHeaders(self)
        body == Gather([i \in 1..Len(rowsets) |-> HTMLRowset(i - 1, rowsets[i])])
        fits == \A h \in 1..Len(self.headers.rows), i \in 1..Len(rowsets) :
                   \A j \in 1..Len(Subrows(rowsets[i])) :
                      Len(Subrows(rowsets[i])[j].cells) = Len(self.headers.rows[h])
    IN  IF head.exc # "" THEN head
        ELSE IF ~fits THEN Raise("LayoutError")
        ELSE IF body.exc # "" THEN body
        ELSE Return(HTMLPreamble(self) \o head.value \o <<Tag("tbody")>> \o body.value
                    \o <<Tag("/tbody"), Tag("/table")>>)

\* HTMLTable.render(rowsets): the lines joined, or the exception raised
HTMLRender(self, rowsets) ==
    LET head == HTMLHeaders(self)
        body == Gather([i \in 1..Len(rowsets) |-> HTMLRowset(i - 1, rowsets[i])])
    IN  IF head.exc # "" THEN head
        ELSE IF body.exc # "" THEN body
        ELSE Return(HTMLPreamble(self) \o head.value \o <<Tag("tbody")>> \o body.value
                    \o <<Tag("/tbody"), Tag("/table")>>)

(***************************************************************************)
(* SpreadsheetTable.render.  The workbook is given by the name of its      *)
(* sheet and the cells written to it, in the order of writing; by is the   *)
(* statement that wrote the cell.  _getstyle works on the class-level      *)
(* styletypemap, which is handed from cell to cell.                        *)
(***************************************************************************)
headerstyle == [num_format_str |-> "General", bold |-> 1, horz |-> "general"]
explanationstyle == [num_format_str |-> "General", bold |-> 1, horz |-> "general"]
Written(by, rownum, colnum, value, xf) ==
    [by |-> by, row |-> rownum, col |-> colnum, value |-> value, style |-> xf]

\* xlwt's Row.write takes text, numbers, booleans and None, and raises Exception
\* ("Unexpected data type") on any other value
Writable(value) == value.t \in {"None", "str", "int", "bool", "Decimal"}

NextColumnByOne(colnum, cellstyle) == colnum + 1

\* colnum += style.span
NextColumn(colnum, cellstyle) == colnum + StyleGetAttr(cellstyle, "span").n

\* for headercolumn in headerrow: mainsheet.write(rownum, colnum, title, headerstyle)
RECURSIVE SheetHeaderRow(_, _, _, _)
SheetHeaderRow(columns, rownum, colnum, sheet) ==
    IF columns = <<>> \/ sheet.exc # "" THEN sheet
    ELSE LET headercolumn == Head(columns)
         IN  IF ~Writable(headercolumn.title) THEN [sheet EXCEPT !.exc = "Exception"]
             ELSE SheetHeaderRow(Tail(columns), rownum,
                                 NextColumn(colnum, headercolumn.style),
                                 [sheet EXCEPT !.cells = Append(@,
                                     Written("header", rownum, colnum, headercolumn.title,
                                             headerstyle))])

\* for headerrow in self.headers: ...; rownum += 1
RECURSIVE SheetHeaders(_, _, _)
SheetHeaders(rows, rownum, sheet) ==
    IF rows = <<>> \/ sheet.exc # "" THEN [sheet EXCEPT !.rownum = rownum]
    ELSE SheetHeaders(Tail(rows), rownum + 1, SheetHeaderRow(Head(rows), rownum, 0, sheet))

\* for cell in subrow: row.write(colnum, cell.value, self._getstyle(cell)); the style
\* is made (and cached) before the cell is written
RECURSIVE SheetSubrow(_, _, _, _)
SheetSubrow(cells, rownum, colnum, sheet) ==
    IF cells = <<>> \/ sheet.exc # "" THEN sheet
    ELSE LET c == Head(cells)
             made == GetStyle(c, sheet.map)
         IN  IF ~Writable(c.value) THEN [sheet EXCEPT !.exc = "Exception", !.map = made.map]
             ELSE SheetSubrow(Tail(cells), rownum, NextColumn(colnum, c.style),
                              [sheet EXCEPT !.map = made.map,
                                            !.cells = Append(@,
                                                Written("cell", rownum, colnum, c.value,
                                                        made.style))])

\* for subrow in rowset: ...; rownum += 1
RECURSIVE SheetSubrows(_, _, _)
SheetSubrows(subrows, rownum, sheet) ==
    IF subrows = <<>> \/ sheet.exc # "" THEN [sheet EXCEPT !.rownum = rownum]
    ELSE SheetSubrows(Tail(subrows), rownum + 1,
                      SheetSubrow(Head(subrows).cells, rownum, 0, sheet))

\* for rowset in rowsets
RECURSIVE SheetRowsets(_, _)
SheetRowsets(rowsets, sheet) ==
    IF rowsets = <<>> \/ sheet.exc # "" THEN sheet
    ELSE SheetRowsets(Tail(rowsets),
                      SheetSubrows(Subrows(Head(rowsets)), sheet.rownum, sheet))

SpreadsheetSheetExplanationOneRow(self, rowsets, map) ==
    LET named == [name |-> IF Truthy(self.title) THEN Unicode(self.title)
                           ELSE <<"S", "h", "e", "e", "t", " ", "1">>,
                  cells |-> <<>>, rownum |-> 0, map |-> map, exc |-> ""]
        explained == IF Truthy(self.explanation)
                     THEN [named EXCEPT !.cells = <<Written("explanation", 0, 0,
                                                    self.explanation, explanationstyle)>>,
                                        !.rownum = 1]
                     ELSE named
        headed == IF ~HasHeaders(self) THEN explained
                  ELSE SheetHeaders(self.headers.rows, explained.rownum, explained)
    IN  SheetRowsets(rowsets, headed)

\* the sheet as render has filled it when it saves the book (or raises exc), and
\* styletypemap (map) as render leaves it
SpreadsheetSheet(self, rowsets, map) ==
    LET named == [name |-> IF Truthy(self.title) THEN Unicode(self.title)
                           ELSE <<"S", "h", "e", "e", "t", " ", "1">>,
                  cells |-> <<>>, rownum |-> 0, map |-> map, exc |-> ""]
        explained == IF Truthy(self.explanation)
                     THEN [named EXCEPT !.cells = <<Written("explanation", 0, 0,
                                                    self.explanation, explanationstyle)>>,
                                        !.rownum = 2]
                     ELSE named
        headed == IF ~HasHeaders(self) THEN explained
                  ELSE IF self.headers.t = "RowSpec"
                  THEN IF self.headers.columnspecs = <<>> THEN explained
                       ELSE [explained EXCEPT !.exc = "TypeError"]
                  ELSE SheetHeaders(self.headers.rows, explained.rownum, explained)
    IN  SheetRowsets(rowsets, headed)

\* SpreadsheetTable.render(rowsets): the saved workbook, or the exception raised
SpreadsheetRender(self, rowsets, map) ==
    LET sheet == SpreadsheetSheet(self, rowsets, map)
    IN  IF sheet.exc # "" THEN Raise(sheet.exc)
        ELSE Return([name |-> sheet.name, cells |-> sheet.cells])

(***************************************************************************)
(* PDFTable.render.  The document is given by the flowables handed to      *)
(* doc.build: the paragraphs and spacers (components) and the outer table  *)
(* (parenttable), whose rows each hold one table: a header table, or the   *)
(* table of a rowset, which holds one table per TableRow.  What reportlab  *)
(* makes of these when it builds the document is outside this model.       *)
(***************************************************************************)
Paragraph(text, parastyle) == [text |-> text, style |-> parastyle]
\* Table([[...cells]], colWidths=...): a table of one row
RowTable(cells, colWidths) == [cells |-> cells, colWidths |-> colWidths]
OuterRow(kind, tables) == [kind |-> kind, tables |-> tables]

HeaderWidthsAsGiven(headerrow) ==
    Return([i \in 1..Len(headerrow) |-> StyleGetAttr(headerrow[i].style, "width")])

\* widths = [headercolumn.style.width for headercolumn in headerrow]; widths[-1] = None
HeaderWidths(headerrow) ==
    IF headerrow = <<>> THEN Raise("IndexError")
    ELSE Return([i \in 1..Len(headerrow) |->
                    IF i = Len(headerrow) THEN None
                    ELSE StyleGetAttr(headerrow[i].style, "width")])

\* the outer row of one header RowSpec
PDFHeaderRow(headerrow) ==
    LET widths == HeaderWidths(headerrow)
    IN  IF widths.exc # "" THEN widths
        ELSE Return(<<OuterRow("header",
                        <<RowTable([i \in 1..Len(headerrow) |->
                                       Paragraph(headerrow[i].title, "headercellstyle")],
                                   widths.value)>>)>>)

\* the table of one TableRow of a rowset
PDFSubrow(subrow) ==
    RowTable([i \in 1..Len(subrow.cells) |-> PDFRenderCellValue(subrow.cells[i]).value],
             [i \in 1..Len(subrow.cells) |-> StyleGetAttr(subrow.cells[i].style, "width")])

PDFRowsetOneRowPerTableRow(rowset) ==
    LET subrows == Subrows(rowset)
    IN  Return([j \in 1..Len(subrows) |-> OuterRow("rowset", <<PDFSubrow(subrows[j])>>)])

\* the outer row of one rowset: rowtable = Table(subrowtables)
PDFRowset(rowset) ==
    LET subrows == Subrows(rowset)
    IN  Return(<<OuterRow("rowset", [j \in 1..Len(subrows) |-> PDFSubrow(subrows[j])])>>)

\* rowtables: the header rows, then the rowsets
PDFRowTables(self, rowsets) ==
    LET rows == self.headers.rows
        head == IF ~HasHeaders(self) THEN Return(<<>>)
                ELSE IF self.headers.t = "RowSpec"
                THEN IF self.headers.columnspecs = <<>> THEN Return(<<>>)
                     ELSE Raise("TypeError")
                ELSE Gather([i \in 1..Len(rows) |-> PDFHeaderRow(rows[i])])
        body == Gather([i \in 1..Len(rowsets) |-> PDFRowset(rowsets[i])])
    IN  IF head.exc # "" THEN head
        ELSE Return(head.value \o body.value)

\* the paragraphs and spacers before the table; a Spacer's text is its height in
\* tenths of an inch
PDFComponents(self) ==
    (IF Truthy(self.title) THEN <<Paragraph(self.title, "titlestyle")>> ELSE <<>>)
    \o (IF Truthy(self.explanation)
        THEN <<Paragraph(IntVal(2), "Spacer"), Paragraph(self.explanation, "explanationstyle")>>
        ELSE <<>>)
    \o <<Paragraph(IntVal(3), "Spacer")>>

\* PDFTable.tableparentstyle: the backgrounds that the rows of the outer table take
\* in turn, from its first row on
tableparentstyle == [ROWBACKGROUNDS |-> <<"rowoddcolor", "rowevencolor">>]

\* PDFTable.render(rowsets): what is handed to doc.build, or the exception raised
PDFRender(self, rowsets) ==
    LET rowtables == PDFRowTables(self, rowsets)
    IN  IF rowtables.exc # "" THEN rowtables
        ELSE Return([components |-> PDFComponents(self),
                     parenttable |-> [rows |-> rowtables.value, repeatRows |-> 1,
                                      rowbackgrounds |-> tableparentstyle.ROWBACKGROUNDS]])

(***************************************************************************)
(* The table scenario: a table generator of one of the three classes is    *)
(* constructed and renders a sequence of rowsets; then it is dropped and   *)
(* another one is constructed.  styletypemap belongs to the class and      *)
(* outlives them.                                                          *)
(***************************************************************************)
Classes == {"HTMLTable", "PDFTable", "SpreadsheetTable"}
Titles == {None, StrVal(<<"&">>)}
Explanations == {None, StrVal(<<"<">>)}

Options(span, width, bold, money, raw) ==
    Kwargs([o \in {"span", "width", "bold", "money", "raw"} |->
               CASE o = "span" -> span [] o = "width" -> width [] o = "bold" -> bold
                 [] o = "money" -> money [] OTHER -> raw])

\* ColumnSpec('x'), ColumnSpec('y', '<', span=MaxSpan, width=MaxWidth),
\* ColumnSpec('x', '&', span=1, width=MaxWidth, raw=True), ColumnSpec(('y', 'x'))
ColumnX == ColumnSpecInit(StrVal(<<"x">>), None, EmptyDict)
ColumnWide == ColumnSpecInit(StrVal(<<"y">>), StrVal(<<"<">>),
                             Options(IntVal(MaxSpan), IntVal(MaxWidth), Absent, Absent, Absent))
ColumnOne == ColumnSpecInit(StrVal(<<"x">>), StrVal(<<"&">>),
                            Options(IntVal(1), IntVal(MaxWidth), Absent, Absent,
                                    BoolVal(TRUE)))
ColumnPath == ColumnSpecInit(TupleVal(<<"y", "x">>), None, EmptyDict)
HeaderRowSpecs == {<<>>, <<ColumnX, ColumnWide>>, <<ColumnWide, ColumnOne>>, <<ColumnPath>>}
\* a header of three columns, which every row of Rows falls short of
HeaderThree == <<ColumnX, ColumnWide, ColumnOne>>
HeaderArgs ==
    {NoHeaders} \cup {OneRowSpec(r) : r \in HeaderRowSpecs \cup {HeaderThree}}
    \cup {RowSpecList(rs) : rs \in SeqsUpTo(HeaderRowSpecs, MaxHeaderRows)}

\* RowSpec(ColumnSpec('x'), ColumnSpec('y', money=True)) applied to the ledger record
LedgerRowSpec ==
    <<ColumnSpecInit(StrVal(<<"x">>), None, EmptyDict),
      ColumnSpecInit(StrVal(<<"y">>), None,
                     Options(Absent, Absent, Absent, BoolVal(TRUE), Absent))>>
LedgerRow == RowSpecCall(LedgerRowSpec, LedgerRecord).value
\* a bold '<' over MaxSpan columns, MaxWidth inches wide, then a bold money 12, one
\* inch wide
WideRow ==
    TableRow(<<Cell(StrVal(<<"<">>), StyleAttributes(Options(IntVal(MaxSpan), IntVal(MaxWidth),
                                                            BoolVal(TRUE), Absent, Absent))),
               Cell(IntVal(12), StyleAttributes(Options(IntVal(1), IntVal(1), BoolVal(TRUE),
                                                        BoolVal(TRUE), Absent)))>>)
\* a bold 'a', then a raw tuple, which no table generator but the PDF one takes
OddRow ==
    TableRow(<<Cell(StrVal(<<"a">>), StyleAttributes(Options(Absent, Absent, BoolVal(TRUE),
                                                            Absent, Absent))),
               Cell(TupleVal(<<"x">>), StyleAttributes(Options(Absent, Absent, Absent,
                                                               Absent, BoolVal(TRUE))))>>)
Rows == {LedgerRow, WideRow, OddRow}
\* a TableRow, or a list of none, of one, or of one with the ledger row under it
RowsetArgs ==
    {BareRow(r) : r \in Rows} \cup {RowList(<<>>)} \cup {RowList(<<r>>) : r \in Rows}
    \cup {RowList(<<r, LedgerRow>>) : r \in Rows}

\* long inputs go to the tables with no header or with the header ColumnX, ColumnWide
PlainHeaders == {NoHeaders, OneRowSpec(<<ColumnX, ColumnWide>>)}
RowsetsFor(headers) ==
    IF headers \in PlainHeaders THEN SeqsUpTo(RowsetArgs, MaxRowsets)
    ELSE SeqsUpTo(RowsetArgs, 1)

InitTable ==
    /\ ctor = [cls |-> "HTMLTable", title |-> None, explanation |-> None, headers |-> NoHeaders]
    /\ renderer = TableBaseInit(None, None, NoHeaders)
    /\ rowsetsarg = <<>>
    /\ result = Return(None)
    /\ mapbefore = StyleTypeMapInit
    /\ tpc = "start"

\* the classes of the table generators constructed next: once styles are cached the
\* scenario goes on with SpreadsheetTable, the one class that refers to styletypemap
ClassesFor(map) == IF map = StyleTypeMapInit THEN Classes ELSE {"SpreadsheetTable"}

\* HTMLTable(title, explanation, headers), PDFTable(...), SpreadsheetTable(...)
NewTable ==
    /\ tpc = "start"
    /\ \E cls \in ClassesFor(styletypemap), title \in Titles, explanation \in Explanations,
          headers \in HeaderArgs :
          /\ ctor' = [cls |-> cls, title |-> title, explanation |-> explanation,
                      headers |-> headers]
          /\ renderer' = TableBaseInit(title, explanation, headers)
    /\ rowsetsarg' = <<>>
    /\ result' = Return(None)
    /\ tpc' = "table"
    /\ UNCHANGED <<styletypemap, mapbefore>>

\* the table generator and its output go out of use; the class stays
DropTable ==
    /\ tpc = "rendered"
    /\ ctor' = [cls |-> "HTMLTable", title |-> None, explanation |-> None,
                headers |-> NoHeaders]
    /\ renderer' = TableBaseInit(None, None, NoHeaders)
    /\ rowsetsarg' = <<>>
    /\ result' = Return(None)
    /\ mapbefore' = StyleTypeMapInit
    /\ tpc' = "start"
    /\ UNCHANGED styletypemap

\* HTMLTable.render(rowsets)
RenderHTML ==
    /\ tpc = "table" /\ ctor.cls = "HTMLTable"
    /\ \E rs \in RowsetsFor(ctor.headers) :
          /\ rowsetsarg' = rs
          /\ result' = HTMLRender(renderer, rs)
    /\ mapbefore' = styletypemap
    /\ tpc' = "rendered"
    /\ UNCHANGED <<ctor, renderer, styletypemap>>

\* PDFTable.render(rowsets)
RenderPDF ==
    /\ tpc = "table" /\ ctor.cls = "PDFTable"
    /\ \E rs \in RowsetsFor(ctor.headers) :
          /\ rowsetsarg' = rs
          /\ result' = PDFRender(renderer, rs)
    /\ mapbefore' = styletypemap
    /\ tpc' = "rendered"
    /\ UNCHANGED <<ctor, renderer, styletypemap>>

\* SpreadsheetTable.render(rowsets)
RenderSpreadsheet ==
    /\ tpc = "table" /\ ctor.cls = "SpreadsheetTable"
    /\ \E rs \in RowsetsFor(ctor.headers) :
          /\ rowsetsarg' = rs
          /\ result' = SpreadsheetRender(renderer, rs, styletypemap)
          /\ styletypemap' = SpreadsheetSheet(renderer, rs, styletypemap).map
    /\ mapbefore' = styletypemap
    /\ tpc' = "rendered"
    /\ UNCHANGED <<ctor, renderer>>

(***************************************************************************)
(* The _cast scenario: formatters are registered in castfunctions (by a    *)
(* subclass, or by assignment to the class attribute) and _cast is called  *)
(* on a cell.                                                              *)
(***************************************************************************)
CastTypes == {"int", "bool", "str"}
CastFunctions == {"angle", "amp"}
CastFunctionDicts == UNION {[types -> CastFunctions] : types \in SUBSET CastTypes}
CastValues == {None, IntVal(5), BoolVal(TRUE), StrVal(<<"<", "&">>)}
CastStyles == {None} \cup {StyleAttributes(Kwargs([o \in {"raw"} |-> r])) : r \in Flags}

InitCast ==
    /\ castfunctions = CastFunctionsInit
    /\ castcell = Cell(None, None)
    /\ casted = None
    /\ kpc = "start"

\* castfunctions = {...}
RegisterCastFunctions ==
    /\ kpc = "start"
    /\ castfunctions' \in CastFunctionDicts
    /\ kpc' = "class"
    /\ UNCHANGED <<castcell, casted>>

\* self._cast(cell)
CallCast ==
    /\ kpc = "class"
    /\ \E value \in CastValues, cellstyle \in CastStyles :
          /\ castcell' = Cell(value, cellstyle)
          /\ casted' = CastWith(castfunctions, Cell(value, cellstyle))
    /\ kpc' = "cast"
    /\ UNCHANGED castfunctions

(***************************************************************************)
(* The _getstyle scenario: _getstyle is called on one cell after another;  *)
(* styletypemap keeps what the calls cache.                                *)
(***************************************************************************)
\* datetime.date(...) and datetime.datetime(...): values of the two types that
\* styletypemap has a table for
DateVal == [t |-> "date", n |-> 0, s |-> <<>>]
DateTimeVal == [t |-> "datetime", n |-> 0, s |-> <<>>]
StyleCells ==
    {Cell(value, StyleAttributes(Options(Absent, Absent, b, m, Absent))) :
        value \in {IntVal(5), DateVal, DateTimeVal},
        b \in {Absent, BoolVal(TRUE)}, m \in {Absent, BoolVal(TRUE)}}

InitCache ==
    /\ stylecell = Cell(None, None)
    /\ styled = StyleTypeMapInit["None"][NoneKey]
    /\ cachebefore = StyleTypeMapInit

\* self._getstyle(cell)
CallGetStyle ==
    /\ \E c \in StyleCells :
          /\ stylecell' = c
          /\ styled' = GetStyle(c, styletypemap).style
          /\ styletypemap' = GetStyle(c, styletypemap).map
    /\ cachebefore' = styletypemap
    /\ UNCHANGED <<cell, rendered, cpc>>

InitCell ==
    /\ cell = Cell(None, None)
    /\ rendered = Return(None)
    /\ styletypemap = StyleTypeMapInit
    /\ cpc = "start"

Init == InitStyle /\ InitRow /\ InitCell /\ InitTable /\ InitCast /\ InitCache

NextStyle ==
    \/ NewStyleAttributes /\ UNCHANGED <<rowVars, cellVars, tableVars, castVars, cacheVars>>
    \/ NewColumnSpec /\ UNCHANGED <<rowVars, cellVars, tableVars, castVars, cacheVars>>
    \/ ReadOption /\ UNCHANGED <<rowVars, cellVars, tableVars, castVars, cacheVars>>

NextRow ==
    \/ NewRowSpec /\ UNCHANGED <<styleVars, cellVars, tableVars, castVars, cacheVars>>
    \/ CallRowSpec /\ UNCHANGED <<styleVars, cellVars, tableVars, castVars, cacheVars>>
    \/ CallMakeall /\ UNCHANGED <<styleVars, cellVars, tableVars, castVars, cacheVars>>

NextCell ==
    \/ NewCell /\ UNCHANGED <<styleVars, rowVars, tableVars, castVars, cacheVars>>
    \/ HTMLRenderCell /\ UNCHANGED <<styleVars, rowVars, tableVars, castVars, cacheVars>>
    \/ PDFRenderCell /\ UNCHANGED <<styleVars, rowVars, tableVars, castVars, cacheVars>>
    \/ SpreadsheetWriteCell /\ UNCHANGED <<styleVars, rowVars, tableVars, castVars, cacheVars>>

\* StyleAttributes and ColumnSpec objects being constructed and read
SpecStyle == Init /\ [][NextStyle]_vars
\* RowSpec objects being constructed and called
SpecRow == Init /\ [][NextRow]_vars

\* cells being rendered by the three table generators
SpecCell == Init /\ [][NextCell]_vars

NextTable ==
    \/ NewTable /\ UNCHANGED <<styleVars, rowVars, cell, rendered, cpc, castVars, cacheVars>>
    \/ RenderHTML /\ UNCHANGED <<styleVars, rowVars, cell, rendered, cpc, castVars, cacheVars>>
    \/ RenderPDF /\ UNCHANGED <<styleVars, rowVars, cell, rendered, cpc, castVars, cacheVars>>
    \/ RenderSpreadsheet /\ UNCHANGED <<styleVars, rowVars, cell, rendered, cpc, castVars, cacheVars>>
    \/ DropTable /\ UNCHANGED <<styleVars, rowVars, cell, rendered, cpc, castVars, cacheVars>>

\* table generators being constructed and rendering rowsets
SpecTable == Init /\ [][NextTable]_vars

NextCast ==
    \/ RegisterCastFunctions /\ UNCHANGED <<styleVars, rowVars, cellVars, tableVars, cacheVars>>
    \/ CallCast /\ UNCHANGED <<styleVars, rowVars, cellVars, tableVars, cacheVars>>

\* _cast being called under registered formatters
SpecCast == Init /\ [][NextCast]_vars

NextCache ==
    CallGetStyle /\ UNCHANGED <<styleVars, rowVars, tableVars, castVars>>

\* _getstyle being called again and again
SpecCache == Init /\ [][NextCache]_vars

(***************************************************************************)
(* What the claims say of a lookup, stated on the source objects.          *)
(***************************************************************************)
HasKey(v, a) == v.t = "object" /\ Heap[v.n].getitem = "mapping" /\ a \in DOMAIN Heap[v.n].item
HasAttr(v, a) == v.t = "object" /\ a \in DOMAIN Heap[v.n].attr
KeyValue(v, a) == Heap[v.n].item[a]
AttrValue(v, a) == Heap[v.n].attr[a]
\* the mapping value when there is one, else the attribute's
Found(v, a) == IF HasKey(v, a) THEN KeyValue(v, a) ELSE AttrValue(v, a)
\* the first k names of the path all resolve, from the record on
RECURSIVE Resolves(_, _, _)
Resolves(v, path, k) ==
    \/ k = 0
    \/ /\ k <= Len(path)
       /\ HasKey(v, path[1]) \/ HasAttr(v, path[1])
       /\ Resolves(Found(v, path[1]), Tail(path), k - 1)
\* the value the first k names of a resolving path lead to
RECURSIVE Reached(_, _, _)
Reached(v, path, k) ==
    IF k = 0 THEN v ELSE Reached(Found(v, path[1]), Tail(path), k - 1)
AllResolve == \A i \in 1..Len(columnspecs) :
                 Resolves(rowobjects[1], columnspecs[i].attributes,
                          Len(columnspecs[i].attributes))
\* some name of some column has neither a key nor an attribute on the value reached
SomeLookupFails ==
    \E i \in 1..Len(columnspecs) :
        \E k \in 1..Len(columnspecs[i].attributes) :
            LET path == columnspecs[i].attributes
                cur == Reached(rowobjects[1], path, k - 1)
            IN  /\ Resolves(rowobjects[1], path, k - 1)
                /\ ~HasKey(cur, path[k])
                /\ ~HasAttr(cur, path[k])

\* C1: a RowSpec of N ColumnSpecs called on a record on which every path resolves
\* returns a TableRow of exactly N cells; cell i holds the value ColumnSpec i
\* resolves to and ColumnSpec i's StyleAttributes.
C1_OneCellPerColumn ==
    (rpc = "called" /\ AllResolve) =>
        /\ raised = ""
        /\ Len(output) = 1
        /\ Len(output[1].cells) = Len(columnspecs)
        /\ \A i \in 1..Len(columnspecs) :
              /\ output[1].cells[i].style = columnspecs[i].style
              /\ output[1].cells[i].value =
                    Reached(rowobjects[1], columnspecs[i].attributes,
                            Len(columnspecs[i].attributes))

C1_Witness ==
    /\ rpc = "called" /\ AllResolve /\ raised = ""
    /\ Len(columnspecs) = 2
    /\ output[1].cells[1].style # output[1].cells[2].style
    /\ output[1].cells[1].value # output[1].cells[2].value

\* C2: at every path segment the mapping lookup is tried first and the attribute
\* lookup is used only when the mapping lookup fails: a value that has the key
\* yields the mapping value, also when it has an attribute of the same name with
\* another value; the attribute's value is taken only when there is no such key.
C2_MappingLookupWins ==
    (rpc = "called" /\ raised = "") =>
        \A i \in 1..Len(columnspecs) :
            LET path == columnspecs[i].attributes
                cur == Reached(rowobjects[1], path, Len(path) - 1)
                name == path[Len(path)]
                value == output[1].cells[i].value
            IN  /\ HasKey(cur, name) => value = KeyValue(cur, name)
                /\ ~HasKey(cur, name) => HasAttr(cur, name) /\ value = AttrValue(cur, name)

C2_Witness ==
    /\ rpc = "called" /\ raised = ""
    /\ \E i \in 1..Len(columnspecs) :
          LET path == columnspecs[i].attributes
              cur == Reached(rowobjects[1], path, Len(path) - 1)
              name == path[Len(path)]
          IN  /\ Len(path) = 2
              /\ HasKey(cur, name) /\ HasAttr(cur, name)
              /\ KeyValue(cur, name) # AttrValue(cur, name)
              /\ output[1].cells[i].value = KeyValue(cur, name)

\* C3: a path of k >= 1 names is resolved left to right, each name on the value the
\* previous name led to (the first on the record), the mapping-then-attribute choice
\* being made at each name; ('x','y') on {'x': {'x': 8, 'y': 5}, ...} yields 5; and a
\* path given as one name behaves as the one-element tuple.
C3_PathResolvedLeftToRight ==
    (rpc = "called" /\ raised = "") =>
        /\ \A i \in 1..Len(columnspecs) :
              LET path == columnspecs[i].attributes
              IN  /\ Resolves(rowobjects[1], path, Len(path))
                  /\ output[1].cells[i].value = Reached(rowobjects[1], path, Len(path))
                  /\ (rowobjects[1] = RefVal(4)
                        /\ path = <<StrVal(<<"x">>), StrVal(<<"y">>)>>)
                       => output[1].cells[i].value = IntVal(5)
        /\ \A i, j \in 1..Len(columnspecs) :
              (/\ columnspecs[i].title.t = "str"
               /\ columnspecs[j].title = TupleVal(<<columnspecs[i].title.s[1]>>))
              => output[1].cells[i].value = output[1].cells[j].value

C3_Witness ==
    /\ rpc = "called" /\ raised = ""
    /\ rowobjects[1] = RefVal(5)
    /\ Len(columnspecs) = 2
    /\ columnspecs[1].title = TupleVal(<<"x", "y">>)
    /\ output[1].cells[1].value = IntVal(9)
    /\ columnspecs[2].title = TupleVal(<<"y", "x">>)
    /\ output[1].cells[2].value = RefVal(1)

C3_WitnessExample ==
    /\ rpc = "called" /\ raised = ""
    /\ rowobjects[1] = RefVal(4)
    /\ \E i \in 1..Len(columnspecs) :
          /\ columnspecs[i].title = TupleVal(<<"x", "y">>)
          /\ output[1].cells[i].value = IntVal(5)

\* C4 as stated: when some name of some ColumnSpec has neither a key nor an attribute
\* on the value reached, the call fails with a ResolutionError and returns no
\* TableRow.
C4_RaisesResolutionError ==
    (rpc = "called" /\ SomeLookupFails) => (raised = "ResolutionError" /\ output = <<>>)

\* C4, amended: in that case the call fails with the exception of the failing
\* lookup, raised to the caller as it is: the attribute lookup's AttributeError, or
\* the mapping lookup's own exception when that is neither KeyError nor TypeError;
\* no TableRow, not even a partial one, is returned.
C4_RaisesLookupError ==
    (rpc = "called" /\ SomeLookupFails) =>
        /\ output = <<>>
        /\ \/ raised = "AttributeError"
           \/ /\ raised = "IndexError"
              /\ \E i \in 1..Len(columnspecs) :
                    \E k \in 1..Len(columnspecs[i].attributes) :
                        LET path == columnspecs[i].attributes
                            cur == Reached(rowobjects[1], path, k - 1)
                        IN  /\ Resolves(rowobjects[1], path, k - 1)
                            /\ cur.t = "object"
                            /\ Heap[cur.n].getitem = "sequence"

C4_Witness ==
    /\ rpc = "called" /\ SomeLookupFails
    /\ raised = "AttributeError"
    /\ Len(columnspecs) = 2
    /\ Resolves(rowobjects[1], columnspecs[1].attributes, Len(columnspecs[1].attributes))
    /\ Len(columnspecs[2].attributes) = 2
    /\ Resolves(rowobjects[1], columnspecs[2].attributes, 1)

\* C5: makeall returns one TableRow per record, in input order (row i is the RowSpec
\* applied to record i), and an empty list for no records; it returns whenever the
\* RowSpec can be applied to every record.
C5_MakeallOneRowPerRecord ==
    (rpc = "madeall") =>
        /\ (\A i \in 1..Len(rowobjects) : RowSpecCall(columnspecs, rowobjects[i]).exc = "")
             => raised = ""
        /\ raised = "" =>
              /\ Len(output) = Len(rowobjects)
              /\ \A i \in 1..Len(rowobjects) :
                    /\ RowSpecCall(columnspecs, rowobjects[i]).exc = ""
                    /\ output[i] = RowSpecCall(columnspecs, rowobjects[i]).value
        /\ raised # "" => output = <<>>

C5_Witness ==
    /\ rpc = "madeall" /\ raised = ""
    /\ Len(rowobjects) = 2 /\ Len(output) = 2
    /\ Len(columnspecs) = 2
    /\ output[1] # output[2]

C5_WitnessEmpty ==
    rpc = "madeall" /\ rowobjects = <<>> /\ Len(columnspecs) > 0 /\ raised = "" /\ output = <<>>

\* C6: an option that was not given reads as 1 for span and as None, a false value,
\* for width, bold, money, raw and any unrecognised name; a span given as n reads
\* as n.
C6_Defaults ==
    (key # "") =>
        LET p == style.properties
        IN  /\ key \notin DOMAIN p => got = (IF key = "span" THEN IntVal(1) ELSE None)
            /\ (key \notin DOMAIN p /\ key # "span") => ~Truthy(got)
            /\ (key = "span" /\ key \in DOMAIN p /\ p[key] # None) => got = p[key]

C6_Witness ==
    /\ spc = "style" /\ key = "span"
    /\ DOMAIN style.properties = {"width", "color"}
    /\ got = IntVal(1)

C6_WitnessSpanGiven ==
    /\ key = "span" /\ "span" \in DOMAIN style.properties
    /\ style.properties["span"] = IntVal(3)
    /\ got = IntVal(3)

C6_WitnessUnrecognised ==
    key = "color" /\ "color" \notin DOMAIN style.properties /\ got = None

\* C7: a width of w inches, w = 0 included, reads as w times 72; a width that was
\* not given (or given as None) reads as None, never as a number.
C7_WidthInPoints ==
    (key = "width") =>
        LET p == style.properties
        IN  IF "width" \in DOMAIN p /\ p["width"] # None
            THEN got = IntVal(p["width"].n * 72)
            ELSE got = None

C7_Witness ==
    /\ key = "width" /\ "width" \in DOMAIN style.properties
    /\ style.properties["width"] = IntVal(2)
    /\ got = IntVal(144)

C7_WitnessZero ==
    /\ key = "width" /\ "width" \in DOMAIN style.properties
    /\ style.properties["width"] = IntVal(0)
    /\ got = IntVal(0)

\* C8 as stated: without a title the title is the first (or only) name of the path,
\* for one name and for a tuple of names alike; with a title it is that title.
C8_TitleIsFirstSegment ==
    (spc = "column") =>
        IF given.title = None THEN column.title = column.attributes[1]
        ELSE column.title = given.title

\* C8, amended: without a title, or with an empty one, the title is the path
\* argument as it was given: the name itself for one name (then it is the only
\* segment), the whole tuple for a tuple of names; with a non-empty title it is that
\* title.
C8_TitleIsAttributeAsGiven ==
    (spc = "column") =>
        /\ Truthy(given.title) => column.title = given.title
        /\ ~Truthy(given.title) =>
              /\ column.title = given.attribute
              /\ given.attribute.t = "str" => column.title = column.attributes[1]
              /\ given.attribute.t = "tuple" =>
                    /\ column.title.t = "tuple"
                    /\ column.title # column.attributes[1]
                    /\ TupleElements(column.title) = column.attributes

C8_Witness ==
    /\ spc = "column"
    /\ given.title = None
    /\ given.attribute = TupleVal(<<"x", "y">>)
    /\ column.title = TupleVal(<<"x", "y">>)
    /\ column.attributes[1] = StrVal(<<"x">>)

\* what C10 says of escaping, character by character
RECURSIVE Escaped(_)
Escaped(chars) ==
    IF chars = <<>> THEN <<>>
    ELSE (CASE Head(chars) = "&" -> <<"&", "a", "m", "p", ";">>
            [] Head(chars) = "<" -> <<"&", "l", "t", ";">>
            [] Head(chars) = ">" -> <<"&", "g", "t", ";">>
            [] OTHER -> <<Head(chars)>>) \o Escaped(Tail(chars))
\* every carriage return turned into '<br />'
RECURSIVE LineBreaks(_)
LineBreaks(chars) ==
    IF chars = <<>> THEN <<>>
    ELSE (IF Head(chars) = "\r" THEN <<"<", "b", "r", " ", "/", ">">> ELSE <<Head(chars)>>)
         \o LineBreaks(Tail(chars))
IsRaw(c) == "raw" \in DOMAIN c.style.properties /\ c.style.properties["raw"] = BoolVal(TRUE)

\* a paragraph with no content: '' and, in bold, '<b></b>'
EmptyParagraphTexts == {StrVal(<<>>), StrVal(<<"<", "b", ">", "<", "/", "b", ">">>)}

\* C9: a cell whose value is None renders as empty content in all three formats (an
\* empty td, an empty paragraph, an empty spreadsheet cell), whatever its style
\* options, and rendering it raises no error.
C9_NoneRendersEmpty ==
    (cpc \in {"html", "pdf", "xls"} /\ cell.value = None) =>
        /\ rendered.exc = ""
        /\ cpc = "html" => rendered.value.content = <<>>
        /\ cpc = "pdf" => rendered.value.text \in EmptyParagraphTexts
        /\ cpc = "xls" => rendered.value.value = None

\* C9 restricted to the cells that are not raw, where it does hold
C9_NoneRendersEmptyUnlessRaw ==
    (cpc \in {"html", "pdf", "xls"} /\ cell.value = None /\ ~IsRaw(cell)) =>
        /\ rendered.exc = ""
        /\ cpc = "html" => rendered.value.content = <<>>
        /\ cpc = "pdf" => rendered.value.text \in EmptyParagraphTexts
        /\ cpc = "xls" => rendered.value.value = None

C10_WitnessRaw ==
    /\ cpc = "html" /\ cell.value = StrVal(Example) /\ IsRaw(cell)
    /\ rendered.exc = ""
    /\ rendered.value.content = Example

C10_WitnessLineBreak ==
    /\ cpc = "html" /\ cell.value = StrVal(<<"a", "\r">>) /\ IsRaw(cell)
    /\ rendered.value.content = <<"a", "<", "b", "r", " ", "/", ">">>

(***************************************************************************)
(* What the claims say of a rendered table, stated on the input.           *)
(***************************************************************************)
Rendered(cls) == tpc = "rendered" /\ ctor.cls = cls
Returned(cls) == Rendered(cls) /\ result.exc = ""
\* the number of TableRows a rowset stands for
RowCount(rowset) == IF rowset.t = "TableRow" THEN 1 ELSE Len(rowset.rows)
\* for every TableRow of the input, in order, the index (from 0) of its rowset
RECURSIVE OwnersFrom(_, _)
OwnersFrom(rest, index) ==
    IF rest = <<>> THEN <<>>
    ELSE [j \in 1..RowCount(Head(rest)) |-> index] \o OwnersFrom(Tail(rest), index + 1)
Owners(rs) == OwnersFrom(rs, 0)
IsDataRowLine(l) == l.kind = "tr" /\ l.classes # <<>>
DataRowLines(lines) == SelectSeq(lines, IsDataRowLine)
Stripe(l) == l.classes[1]

\* C11: in HTML output the stripe class of a row is chosen by the parity of the index
\* of its rowset: all rows of a rowset carry the same stripe class, and the rows of
\* two consecutive rowsets carry different ones.
C11_ZebraPerRowset ==
    Returned("HTMLTable") =>
        LET trs == DataRowLines(result.value)
            own == Owners(rowsetsarg)
        IN  /\ Len(trs) = Len(own)
            /\ \A k \in 1..Len(trs) :
                  /\ Stripe(trs[k]) \in {"odd", "even"}
                  /\ Stripe(trs[k]) = "odd" <=> own[k] % 2 = 0
            /\ \A k, l \in 1..Len(trs) :
                  /\ own[k] = own[l] => Stripe(trs[k]) = Stripe(trs[l])
                  /\ own[l] = own[k] + 1 => Stripe(trs[k]) # Stripe(trs[l])

\* two rowsets of two rows each were rendered with the stripes A, A, B, B
C11_Witness ==
    /\ Returned("HTMLTable")
    /\ Len(rowsetsarg) = 2
    /\ \A i \in 1..2 : rowsetsarg[i].t = "list" /\ Len(rowsetsarg[i].rows) = 2
    /\ [k \in 1..4 |-> Stripe(DataRowLines(result.value)[k])]
           = <<"odd", "odd", "even", "even">>

\* the cells of the input, in order
RECURSIVE CellsOfRows(_)
CellsOfRows(tablerows) ==
    IF tablerows = <<>> THEN <<>> ELSE Head(tablerows).cells \o CellsOfRows(Tail(tablerows))
RECURSIVE InputCells(_)
InputCells(rs) ==
    IF rs = <<>> THEN <<>>
    ELSE (IF Head(rs).t = "TableRow" THEN Head(rs).cells ELSE CellsOfRows(Head(rs).rows))
         \o InputCells(Tail(rs))
\* the option was given to the cell's style with a true value
IsSet(c, option) ==
    option \in DOMAIN c.style.properties /\ Truthy(c.style.properties[option])
IsCellLine(l) == l.kind = "td"
CellLines(lines) == SelectSeq(lines, IsCellLine)

\* C12: in HTML output a money cell has the class cell_money, a bold cell the class
\* cell_bold (both, bold first, when both are set) and a cell with neither has no
\* class attribute; the ledger row, RowSpec(ColumnSpec('x'), ColumnSpec('y',
\* money=True)) applied to {'x': 1, 'y': Decimal('12.50')}, renders as one row of
\* a plain cell '1' followed by a cell_money cell '12.50'.
C12_MoneyAndBoldClasses ==
    Returned("HTMLTable") =>
        LET tds == CellLines(result.value)
            cells == InputCells(rowsetsarg)
        IN  /\ Len(tds) = Len(cells)
            /\ \A k \in 1..Len(tds) :
                  tds[k].classes =
                      CASE IsSet(cells[k], "bold") /\ IsSet(cells[k], "money")
                                -> <<"cell_bold", "cell_money">>
                        [] IsSet(cells[k], "bold") -> <<"cell_bold">>
                        [] IsSet(cells[k], "money") -> <<"cell_money">>
                        [] OTHER -> <<>>
            /\ rowsetsarg = <<BareRow(LedgerRow)>> =>
                  /\ Len(DataRowLines(result.value)) = 1
                  /\ tds = <<Line("td", <<>>, 0, <<"1">>),
                             Line("td", <<"cell_money">>, 0, <<"1", "2", ".", "5", "0">>)>>

\* the ledger row was made by the RowSpec from the record and rendered
C12_Witness ==
    /\ Returned("HTMLTable")
    /\ RowSpecCall(LedgerRowSpec, LedgerRecord) = Return(LedgerRow)
    /\ LedgerRow.cells[2].value = DecimalVal(<<"1", "2", ".", "5", "0">>)
    /\ rowsetsarg = <<BareRow(LedgerRow)>>
    /\ CellLines(result.value)[2].classes = <<"cell_money">>

\* a cell that is both bold and money was rendered
C12_WitnessBoth ==
    /\ Returned("HTMLTable")
    /\ \E k \in 1..Len(InputCells(rowsetsarg)) :
          /\ IsSet(InputCells(rowsetsarg)[k], "bold") /\ IsSet(InputCells(rowsetsarg)[k], "money")
          /\ CellLines(result.value)[k].classes = <<"cell_bold", "cell_money">>

\* the number of header RowSpecs the constructor was given
HeaderCount(headers) ==
    CASE headers.t = "RowSpec" -> 1
      [] headers.t = "list" -> Len(headers.rows)
      [] OTHER -> 0
IsHeaderRowLine(l) == l.kind = "tr" /\ l.classes = <<>>
HeaderRowLines(lines) == SelectSeq(lines, IsHeaderRowLine)
\* the positions of the lines of a kind
Positions(lines, kind) == {i \in 1..Len(lines) : lines[i].kind = kind}

\* C13: a table generator constructed with a title and a header renders an empty
\* sequence of rowsets without error, and the output holds the title block, every
\* header row and an empty body.
C13_EmptyRowsetsRender ==
    (/\ tpc = "rendered"
     /\ Truthy(ctor.title)
     /\ HeaderCount(ctor.headers) > 0
     /\ rowsetsarg = <<>>) =>
        /\ result.exc = ""
        /\ ctor.cls = "HTMLTable" =>
              LET lines == result.value
              IN  /\ lines[1] = Line("h2", <<>>, 0, ctor.title.s)
                  /\ Len(HeaderRowLines(lines)) = HeaderCount(ctor.headers)
                  /\ \E i \in 1..Len(lines) - 1 :
                        /\ Positions(lines, "/thead") = {i - 1}
                        /\ Positions(lines, "tbody") = {i}
                        /\ Positions(lines, "/tbody") = {i + 1}
                  /\ DataRowLines(lines) = <<>>
        /\ ctor.cls = "PDFTable" =>
              /\ result.value.components[1] = Paragraph(ctor.title, "titlestyle")
              /\ Len(result.value.parenttable.rows) = HeaderCount(ctor.headers)
              /\ \A i \in 1..Len(result.value.parenttable.rows) :
                    result.value.parenttable.rows[i].kind = "header"
        /\ ctor.cls = "SpreadsheetTable" =>
              /\ result.value.name = ctor.title.s
              /\ \A i \in 1..Len(result.value.cells) : result.value.cells[i].by # "cell"

RECURSIVE Flatten(_)
Flatten(seqs) == IF seqs = <<>> THEN <<>> ELSE Head(seqs) \o Flatten(Tail(seqs))
Repeat(x, n) == [i \in 1..n |-> x]
\* the header RowSpecs the constructor was given, each the sequence of its ColumnSpecs
HeaderRowsGiven(headers) ==
    IF headers.t = "RowSpec" THEN <<headers.columnspecs>> ELSE headers.rows
\* the TableRows of the input, in order, each the sequence of its cells
InputRows(rs) ==
    Flatten([i \in 1..Len(rs) |->
                IF rs[i].t = "TableRow" THEN <<rs[i].cells>>
                ELSE [j \in 1..Len(rs[i].rows) |-> rs[i].rows[j].cells]])
\* the elements of the output in the order the claim gives
ExpectedKinds(title, explanation, headers, rs) ==
    (IF Truthy(title) THEN <<"h2">> ELSE <<>>)
    \o (IF Truthy(explanation) THEN <<"p">> ELSE <<>>)
    \o <<"table">>
    \o (IF HeaderCount(headers) = 0 THEN <<>>
        ELSE <<"thead">>
             \o Flatten([i \in 1..HeaderCount(headers) |->
                           <<"tr">> \o Repeat("th", Len(HeaderRowsGiven(headers)[i]))
                           \o <<"/tr">>])
             \o <<"/thead">>)
    \o <<"tbody">>
    \o Flatten([i \in 1..Len(InputRows(rs)) |->
                  <<"tr">> \o Repeat("td", Len(InputRows(rs)[i])) \o <<"/tr">>])
    \o <<"/tbody", "/table">>
\* the text a cell is shown with in HTML (see C10)
ExpectedContent(c) ==
    IF IsRaw(c) THEN LineBreaks(c.value.s)
    ELSE IF c.value = None THEN <<>>
    ELSE LineBreaks(Escaped(Unicode(c.value)))
IsHeaderCellLine(l) == l.kind = "th"
HeaderCellLines(lines) == SelectSeq(lines, IsHeaderCellLine)

\* C14: the output of HTMLTable.render holds, in this order: the title block if a
\* title is set, the explanation block if an explanation is set, one header row per
\* header RowSpec in order with the titles of its ColumnSpecs in order, then for each
\* rowset in order its rows in order, each with its cells in order; no row or cell
\* is dropped, duplicated or reordered.
C14_PartsInOrder ==
    Returned("HTMLTable") =>
        LET lines == result.value
            titles == Flatten(HeaderRowsGiven(ctor.headers))
            cells == InputCells(rowsetsarg)
        IN  /\ [i \in 1..Len(lines) |-> lines[i].kind]
                  = ExpectedKinds(ctor.title, ctor.explanation, ctor.headers, rowsetsarg)
            /\ \A i \in 1..Len(lines) :
                  /\ lines[i].kind = "h2" => lines[i].content = ctor.title.s
                  /\ lines[i].kind = "p" => lines[i].content = ctor.explanation.s
            /\ Len(HeaderCellLines(lines)) = Len(titles)
            /\ \A k \in 1..Len(titles) :
                  HeaderCellLines(lines)[k].content = Unicode(titles[k].title)
            /\ Len(CellLines(lines)) = Len(cells)
            /\ \A k \in 1..Len(cells) : CellLines(lines)[k].content = ExpectedContent(cells[k])

\* a table with title, explanation and two different header rows rendered a rowset
\* of two different rows
C14_Witness ==
    /\ Returned("HTMLTable")
    /\ Truthy(ctor.title) /\ Truthy(ctor.explanation)
    /\ HeaderCount(ctor.headers) = 2
    /\ ctor.headers.rows[1] # ctor.headers.rows[2]
    /\ ctor.headers.rows[1] # <<>> /\ ctor.headers.rows[2] # <<>>
    /\ Len(InputRows(rowsetsarg)) = 2
    /\ InputRows(rowsetsarg)[1] # InputRows(rowsetsarg)[2]

\* a table with an explanation and no title rendered two rowsets
C14_WitnessNoTitle ==
    /\ Returned("HTMLTable")
    /\ ~Truthy(ctor.title) /\ Truthy(ctor.explanation)
    /\ Len(rowsetsarg) = 2 /\ rowsetsarg[1] # rowsetsarg[2]
    /\ result.value[1].kind = "p"

\* render of a table generator of the class, with styletypemap as map
RenderAs(cls, self, rs, map) ==
    CASE cls = "HTMLTable" -> HTMLRender(self, rs)
      [] cls = "PDFTable" -> PDFRender(self, rs)
      [] OTHER -> SpreadsheetRender(self, rs, map)
SameOutcome(a, b) == a.exc = b.exc /\ (a.exc = "" => a.value = b.value)
IsHeaderOuterRow(r) == r.kind = "header"
IsHeaderWrite(w) == w.by = "header"
\* the sheet row of the first header row
FirstHeaderRow(explanation) == IF Truthy(explanation) THEN 2 ELSE 0
\* render returned, and its output has one header row per header RowSpec given
OneHeaderRowPerRowSpec ==
    result.exc = "" =>
        CASE ctor.cls = "HTMLTable" ->
                Len(HeaderRowLines(result.value)) = HeaderCount(ctor.headers)
          [] ctor.cls = "PDFTable" ->
                Len(SelectSeq(result.value.parenttable.rows, IsHeaderOuterRow))
                    = HeaderCount(ctor.headers)
          [] OTHER ->
                LET written == SelectSeq(result.value.cells, IsHeaderWrite)
                IN  [k \in 1..Len(written) |-> written[k].row]
                        = Flatten([i \in 1..HeaderCount(ctor.headers) |->
                                     Repeat(FirstHeaderRow(ctor.explanation) + i - 1,
                                            Len(HeaderRowsGiven(ctor.headers)[i]))])

\* C15: a table generator constructed with a single RowSpec as its headers renders
\* every input exactly as one constructed with the one-element list holding that
\* RowSpec does, and a list of k RowSpecs gives exactly k header rows.
C15_SingleRowSpecAsList ==
    tpc = "rendered" =>
        /\ ctor.headers.t = "RowSpec" =>
              SameOutcome(result,
                          RenderAs(ctor.cls,
                                   TableBaseInit(ctor.title, ctor.explanation,
                                                 RowSpecList(<<ctor.headers.columnspecs>>)),
                                   rowsetsarg, mapbefore))
        /\ OneHeaderRowPerRowSpec

\* a table constructed with a single RowSpec of two columns returned two rowsets
C15_Witness ==
    /\ tpc = "rendered" /\ result.exc = ""
    /\ ctor.headers.t = "RowSpec" /\ Len(ctor.headers.columnspecs) = 2
    /\ renderer.headers = RowSpecList(<<ctor.headers.columnspecs>>)
    /\ Len(rowsetsarg) = 2

\* a table constructed with a list of two RowSpecs returned
C15_WitnessTwoRows ==
    /\ tpc = "rendered" /\ result.exc = ""
    /\ ctor.headers.t = "list" /\ Len(ctor.headers.rows) = 2
    /\ ctor.headers.rows[1] # ctor.headers.rows[2]

\* the input with the bare TableRows at the positions replaced by one-row lists
Grouped(rs, positions) ==
    [i \in 1..Len(rs) |->
        IF i \in positions /\ rs[i].t = "TableRow" THEN RowList(<<TableRow(rs[i].cells)>>)
        ELSE rs[i]]
BarePositions(rs) == {i \in 1..Len(rs) : rs[i].t = "TableRow"}

\* C16: in all three table generators a rowset given as a bare TableRow r is
\* rendered exactly as the list [r]: replacing any of the bare TableRows of the
\* input by one-row lists leaves the outcome of render unchanged.
C16_BareRowAsGroup ==
    tpc = "rendered" =>
        \A positions \in SUBSET BarePositions(rowsetsarg) :
            SameOutcome(result,
                        RenderAs(ctor.cls, renderer, Grouped(rowsetsarg, positions),
                                 mapbefore))

\* a bare TableRow and a list of rows were rendered together, by each class
C16_WitnessClass(cls) ==
    /\ Returned(cls)
    /\ Len(rowsetsarg) = 2
    /\ Cardinality(BarePositions(rowsetsarg)) = 1
    /\ \E i \in 1..2 : rowsetsarg[i].t = "list" /\ Len(rowsetsarg[i].rows) = 2
C16_Witness == C16_WitnessClass("HTMLTable")
C16_WitnessPDF == C16_WitnessClass("PDFTable")
C16_WitnessSpreadsheet == C16_WitnessClass("SpreadsheetTable")

\* the span of a style: the span option given to it, 1 when none (or None) was given
SpanOf(cellstyle) ==
    IF "span" \in DOMAIN cellstyle.properties /\ cellstyle.properties["span"] # None
    THEN cellstyle.properties["span"].n
    ELSE 1
\* the colspan attribute the claim gives a cell of the style (0: none)
ExpectedColspan(cellstyle) == IF SpanOf(cellstyle) > 1 THEN SpanOf(cellstyle) ELSE 0

\* C17: in HTML output a header cell or data cell has a colspan attribute, equal to
\* its span, exactly when its span is greater than 1; with no span option, or with
\* span 1, it has none.
C17_ColspanIffSpanAboveOne ==
    Returned("HTMLTable") =>
        LET ths == HeaderCellLines(result.value)
            tds == CellLines(result.value)
            columns == Flatten(HeaderRowsGiven(ctor.headers))
            cells == InputCells(rowsetsarg)
        IN  /\ Len(ths) = Len(columns) /\ Len(tds) = Len(cells)
            /\ \A k \in 1..Len(ths) : ths[k].colspan = ExpectedColspan(columns[k].style)
            /\ \A k \in 1..Len(tds) : tds[k].colspan = ExpectedColspan(cells[k].style)

\* header and data cells with span MaxSpan, with span 1 and without span were rendered
C17_Witness ==
    /\ Returned("HTMLTable")
    /\ MaxSpan > 1
    /\ \E h \in {HeaderCellLines(result.value)}, d \in {CellLines(result.value)} :
          /\ Len(h) = 2 /\ h[1].colspan = MaxSpan /\ h[2].colspan = 0
          /\ ctor.headers.t = "RowSpec" /\ Len(ctor.headers.columnspecs) = 2
          /\ "span" \in DOMAIN ctor.headers.columnspecs[2].style.properties
          /\ SpanOf(ctor.headers.columnspecs[2].style) = 1
          /\ Len(d) = 4 /\ d[1].colspan = MaxSpan /\ d[2].colspan = 0 /\ d[3].colspan = 0
          /\ "span" \in DOMAIN InputCells(rowsetsarg)[2].style.properties
          /\ "span" \notin DOMAIN InputCells(rowsetsarg)[3].style.properties

\* the sum of the spans of the items (cells or ColumnSpecs)
RECURSIVE SumSpans(_)
SumSpans(items) ==
    IF items = <<>> THEN 0 ELSE SpanOf(Head(items).style) + SumSpans(Tail(items))
\* the columns the claim gives the items of one row
ExpectedColumns(items) == [k \in 1..Len(items) |-> SumSpans(SubSeq(items, 1, k - 1))]
IsCellWrite(w) == w.by = "cell"
ColumnsOf(written) == [k \in 1..Len(written) |-> written[k].col]

\* C18: in spreadsheet output, in every header row and every data row the first
\* cell is written at column 0 and each later cell at the column that is the sum of
\* the spans of the cells before it in the row, so that no two cells of a row are
\* written to the same column (all spans being at least 1).
C18_ColumnIsSumOfSpans ==
    Returned("SpreadsheetTable") =>
        LET cells == result.value.cells
            headers == HeaderRowsGiven(ctor.headers)
            rows == InputRows(rowsetsarg)
        IN  /\ ColumnsOf(SelectSeq(cells, IsHeaderWrite))
                  = Flatten([i \in 1..Len(headers) |-> ExpectedColumns(headers[i])])
            /\ ColumnsOf(SelectSeq(cells, IsCellWrite))
                  = Flatten([i \in 1..Len(rows) |-> ExpectedColumns(rows[i])])
            /\ \A k, l \in 1..Len(cells) :
                  (k # l /\ cells[k].row = cells[l].row) => cells[k].col # cells[l].col

\* a header row and a data row whose first cell spans MaxSpan columns were written,
\* the second cell of each at column MaxSpan
C18_Witness ==
    /\ Returned("SpreadsheetTable")
    /\ MaxSpan > 1
    /\ ctor.headers = OneRowSpec(<<ColumnWide, ColumnOne>>)
    /\ rowsetsarg = <<BareRow(WideRow)>>
    /\ ColumnsOf(result.value.cells) = <<0, MaxSpan, 0, MaxSpan>>

\* every entry of the table of styles a is in b, unchanged
Extends(b, a) ==
    /\ DOMAIN b = DOMAIN a
    /\ \A typ \in DOMAIN a :
          /\ DOMAIN a[typ] \subseteq DOMAIN b[typ]
          /\ \A k \in DOMAIN a[typ] : b[typ][k] = a[typ][k]
\* the table of styles a value selects: that of its exact type, else the default one
TableOf(value) == IF value.t \in {"date", "datetime"} THEN value.t ELSE "None"
\* the keys _getstyle uses in the table typ for the cells of the input
InputStyleKeys(rs, typ) ==
    LET cells == InputCells(rs)
    IN  {(IF IsSet(cells[k], "bold") THEN <<"bold">> ELSE <<>>)
         \o (IF IsSet(cells[k], "money") THEN <<"money">> ELSE <<>>) :
            k \in {j \in 1..Len(cells) : TableOf(cells[j].value) = typ}}

\* C19: render calls share no mutable state: no render call of any of the three
\* table generators modifies class-level or instance-level state that a later call
\* can observe.
C19_NoSharedMutableState ==
    tpc = "rendered" =>
        /\ styletypemap = mapbefore
        /\ renderer = TableBaseInit(ctor.title, ctor.explanation, ctor.headers)

\* C19 as the code has it: a render call leaves title, explanation and headers as
\* they were; HTMLTable.render and PDFTable.render modify no class-level state;
\* SpreadsheetTable.render only adds entries to the class-level styletypemap, each
\* under the bold/money combination of a cell of its input in the table the cell's
\* value selects, changing and removing none; and the outcome of a render call is
\* the same whatever earlier calls have added.
C19_OnlyStyleCacheShared ==
    tpc = "rendered" =>
        /\ renderer = TableBaseInit(ctor.title, ctor.explanation, ctor.headers)
        /\ ctor.cls # "SpreadsheetTable" => styletypemap = mapbefore
        /\ Extends(styletypemap, mapbefore)
        /\ \A typ \in DOMAIN styletypemap :
              DOMAIN styletypemap[typ] \ DOMAIN mapbefore[typ]
                 \subseteq InputStyleKeys(rowsetsarg, typ)
        /\ SameOutcome(result, RenderAs(ctor.cls, renderer, rowsetsarg, StyleTypeMapInit))

\* a spreadsheet render that found entries added by an earlier call, used one of
\* them and added another
C19_Witness ==
    /\ Returned("SpreadsheetTable")
    /\ mapbefore # StyleTypeMapInit
    /\ styletypemap # mapbefore
    /\ InputStyleKeys(rowsetsarg, "None") \cap DOMAIN mapbefore["None"] # {}

\* the input holds something the class cannot render: for HTMLTable a tuple title
\* that does not fit '<th>%s</th>' or a raw cell whose value is not text, for
\* PDFTable a header RowSpec without columns, for SpreadsheetTable a title or a value
\* that is not text, a number, a boolean or None
Unrenderable(cls, headers, rs) ==
    LET columns == Flatten(HeaderRowsGiven(headers))
        cells == InputCells(rs)
    IN  CASE cls = "HTMLTable" ->
                \/ \E k \in 1..Len(columns) :
                      /\ columns[k].title.t = "tuple"
                      /\ SpanOf(columns[k].style) <= 1
                      /\ Len(columns[k].title.s) # 1
                \/ \E k \in 1..Len(cells) : IsRaw(cells[k]) /\ cells[k].value.t # "str"
          [] cls = "PDFTable" ->
                \E i \in 1..HeaderCount(headers) : HeaderRowsGiven(headers)[i] = <<>>
          [] OTHER ->
                \/ \E k \in 1..Len(columns) :
                      columns[k].title.t \notin {"None", "str", "int", "bool", "Decimal"}
                \/ \E k \in 1..Len(cells) :
                      cells[k].value.t \notin {"None", "str", "int", "bool", "Decimal"}
\* the output holds every part of the input
Complete ==
    CASE ctor.cls = "HTMLTable" ->
            [i \in 1..Len(result.value) |-> result.value[i].kind]
                = ExpectedKinds(ctor.title, ctor.explanation, ctor.headers, rowsetsarg)
      [] ctor.cls = "PDFTable" ->
            LET rows == result.value.parenttable.rows
            IN  /\ Len(rows) = HeaderCount(ctor.headers) + Len(rowsetsarg)
                /\ \A i \in 1..Len(rowsetsarg) :
                      LET tables == rows[HeaderCount(ctor.headers) + i].tables
                      IN  /\ Len(tables) = RowCount(rowsetsarg[i])
                          /\ \A j \in 1..Len(tables) :
                                Len(tables[j].cells) = Len(InputRows(<<rowsetsarg[i]>>)[j])
      [] OTHER ->
            Len(result.value.cells)
                = (IF Truthy(ctor.explanation) THEN 1 ELSE 0)
                  + Len(Flatten(HeaderRowsGiven(ctor.headers)))
                  + Len(InputCells(rowsetsarg))

\* C20: a render call either returns the complete output or raises: when something
\* in the input cannot be rendered the call raises and returns nothing, no truncated
\* or partly built output; otherwise it returns the whole output; either way the
\* title, explanation and headers of the table generator are left as they were.
C20_CompleteOrRaises ==
    tpc = "rendered" =>
        /\ result.exc # "" <=> Unrenderable(ctor.cls, ctor.headers, rowsetsarg)
        /\ result.exc # "" => result.value = None
        /\ result.exc = "" => Complete
        /\ renderer = TableBaseInit(ctor.title, ctor.explanation, ctor.headers)

\* HTMLTable.render raised on the second cell of the second row, after a title, a
\* header and a whole row had been built
C20_Witness ==
    /\ Rendered("HTMLTable")
    /\ Truthy(ctor.title) /\ HeaderCount(ctor.headers) = 1
    /\ rowsetsarg = <<BareRow(LedgerRow), BareRow(OddRow)>>
    /\ result = Raise("AttributeError")

\* SpreadsheetTable.render raised on a value xlwt does not take, after other cells
\* had been written
C20_WitnessSpreadsheet ==
    /\ Rendered("SpreadsheetTable")
    /\ rowsetsarg = <<BareRow(LedgerRow), BareRow(OddRow)>>
    /\ result = Raise("Exception")
    /\ styletypemap # mapbefore

\* the outer rows that the parent table repeats at the top of every page
RepeatedRows(parenttable) ==
    SubSeq(parenttable.rows, 1,
           IF parenttable.repeatRows < Len(parenttable.rows) THEN parenttable.repeatRows
           ELSE Len(parenttable.rows))
\* the outer row that holds the header table of a header RowSpec
IsHeaderRowOf(r, headerrow) ==
    /\ r.kind = "header"
    /\ Len(r.tables) = 1
    /\ r.tables[1].cells = [i \in 1..Len(headerrow) |->
                               Paragraph(headerrow[i].title, "headercellstyle")]

\* C21: the row that PDFTable marks to be repeated at the top of every page is the
\* first header row, whatever the table generator was constructed with; when no
\* header is defined, no data rowset is marked as a repeating row.
C21_RepeatsFirstHeaderRowOnly ==
    Returned("PDFTable") =>
        LET repeated == RepeatedRows(result.value.parenttable)
        IN  /\ HeaderCount(ctor.headers) > 0 =>
                  /\ Len(repeated) = 1
                  /\ IsHeaderRowOf(repeated[1], HeaderRowsGiven(ctor.headers)[1])
            /\ HeaderCount(ctor.headers) = 0 =>
                  \A i \in 1..Len(repeated) : repeated[i].kind # "rowset"

\* the k-th TableRow of the input is the first one of its rowset
FirstOfRowset(own, k) == k = 1 \/ own[k - 1] # own[k]

\* C22: in HTML output every row after the first of a rowset of several TableRows
\* carries the class 'expand-child' after its stripe class, and the first row of a
\* rowset (so also the only row of a single-row rowset) carries the stripe class alone.
C22_ChildRowsCarryExpandChild ==
    Returned("HTMLTable") =>
        LET trs == DataRowLines(result.value)
            own == Owners(rowsetsarg)
        IN  /\ Len(trs) = Len(own)
            /\ \A k \in 1..Len(trs) :
                  /\ Stripe(trs[k]) \in {"odd", "even"}
                  /\ IF FirstOfRowset(own, k) THEN trs[k].classes = <<Stripe(trs[k])>>
                     ELSE trs[k].classes = <<Stripe(trs[k]), "expand-child">>

\* a rowset of two rows and a single-row rowset were rendered: the second row of the
\* first carries the class, the other two rows do not
C22_Witness ==
    /\ Returned("HTMLTable")
    /\ Len(rowsetsarg) = 2
    /\ rowsetsarg[1].t = "list" /\ Len(rowsetsarg[1].rows) = 2
    /\ RowCount(rowsetsarg[2]) = 1
    /\ [k \in 1..3 |-> DataRowLines(result.value)[k].classes] = <<<<"odd">>, <<"odd", "expand-child">>, <<"even">>>>

\* the TableRow (its cells) and the header RowSpec (its ColumnSpecs) disagree in the
\* number of cells or in the total span
Mismatch(row, headerrow) ==
    Len(row) # Len(headerrow) \/ SumSpans(row) # SumSpans(headerrow)
\* some row of the input disagrees with some header RowSpec
SomeMismatch(headers, rs) ==
    \E h \in 1..HeaderCount(headers), i \in 1..Len(InputRows(rs)) :
        Mismatch(InputRows(rs)[i], HeaderRowsGiven(headers)[h])
\* for every cell of the rows, in order, the index (from 1) of its row
RowOfCell(rows) == Flatten([i \in 1..Len(rows) |-> Repeat(i, Len(rows[i]))])
\* the text of the Paragraph PDFTable makes of a cell
ExpectedParagraphText(c) ==
    LET value == IF IsRaw(c) THEN c.value
                 ELSE IF c.value = None THEN StrVal(<<>>)
                 ELSE StrVal(Escaped(Unicode(c.value)))
    IN  IF IsSet(c, "bold")
        THEN StrVal(<<"<", "b", ">">> \o Unicode(value) \o <<"<", "/", "b", ">">>)
        ELSE value
\* the output has, for every row of the input, exactly the cells of that row
OwnCellsOnly ==
    LET rows == InputRows(rowsetsarg)
        cells == InputCells(rowsetsarg)
    IN  CASE ctor.cls = "HTMLTable" ->
                /\ [i \in 1..Len(result.value) |-> result.value[i].kind]
                       = ExpectedKinds(ctor.title, ctor.explanation, ctor.headers, rowsetsarg)
                /\ [k \in 1..Len(cells) |-> CellLines(result.value)[k].content]
                       = [k \in 1..Len(cells) |-> ExpectedContent(cells[k])]
          [] ctor.cls = "PDFTable" ->
                LET tables == Flatten([i \in 1..Len(rowsetsarg) |->
                                  result.value.parenttable.rows[HeaderCount(ctor.headers) + i].tables])
                IN  /\ Len(tables) = Len(rows)
                    /\ \A i \in 1..Len(rows) :
                          /\ [k \in 1..Len(tables[i].cells) |-> tables[i].cells[k].text]
                                 = [k \in 1..Len(rows[i]) |-> ExpectedParagraphText(rows[i][k])]
                          /\ Len(tables[i].colWidths) = Len(rows[i])
          [] OTHER ->
                LET written == SelectSeq(result.value.cells, IsCellWrite)
                    first == FirstHeaderRow(ctor.explanation) + HeaderCount(ctor.headers)
                IN  /\ [k \in 1..Len(written) |-> written[k].value]
                           = [k \in 1..Len(cells) |-> cells[k].value]
                    /\ [k \in 1..Len(written) |-> written[k].row - first + 1] = RowOfCell(rows)

\* C23: the table generators do not validate the width of a row against the header:
\* when a row differs from a header RowSpec in its number of cells or in its total
\* span, render raises only what the header alone or the rowsets alone make it raise
\* (nothing on account of the width), and what it returns has for every row exactly
\* the cells of that row, one output cell per input cell, none cut off, none added.
C23_NoWidthValidation ==
    (tpc = "rendered" /\ SomeMismatch(ctor.headers, rowsetsarg)) =>
        /\ result.exc # "" =>
              \/ Unrenderable(ctor.cls, ctor.headers, <<>>)
              \/ Unrenderable(ctor.cls, NoHeaders, rowsetsarg)
        /\ result.exc = "" => OwnCellsOnly

\* rows of two cells were rendered under a header of three columns, by each class
C23_WitnessClass(cls) ==
    /\ Returned(cls)
    /\ ctor.headers = OneRowSpec(HeaderThree)
    /\ Len(InputRows(rowsetsarg)) = 1
    /\ Len(InputRows(rowsetsarg)[1]) = 2
C23_Witness == C23_WitnessClass("HTMLTable")
C23_WitnessPDF == C23_WitnessClass("PDFTable")
C23_WitnessSpreadsheet == C23_WitnessClass("SpreadsheetTable")
\* rows of two cells were rendered under a header RowSpec of fewer columns
C23_WitnessLonger ==
    /\ Returned("HTMLTable")
    /\ HeaderCount(ctor.headers) = 2
    /\ \E h \in 1..2 : Len(HeaderRowsGiven(ctor.headers)[h]) < 2
    /\ Len(CellLines(result.value)) = 2

\* the background of the i-th row (from 1) of the outer table
Band(parenttable, i) ==
    parenttable.rowbackgrounds[((i - 1) % Len(parenttable.rowbackgrounds)) + 1]
\* the outer row holds, one table per TableRow and in order, the rows of the rowset
IsRowsetRowOf(r, rowset) ==
    LET rows == InputRows(<<rowset>>)
    IN  /\ r.kind = "rowset"
        /\ Len(r.tables) = Len(rows)
        /\ \A j \in 1..Len(rows) :
              [k \in 1..Len(r.tables[j].cells) |-> r.tables[j].cells[k].text]
                  = [k \in 1..Len(rows[j]) |-> ExpectedParagraphText(rows[j][k])]

\* C24: the outer table of PDFTable.render has one row per header RowSpec, in order,
\* followed by one row per rowset, in order, and all TableRows of a rowset are
\* nested, in order, in the one outer row of that rowset; so a rowset is one row of
\* the outer table (one block, one background), and the backgrounds of consecutive
\* outer rows differ.
C24_OneOuterRowPerRowset ==
    Returned("PDFTable") =>
        LET parenttable == result.value.parenttable
            rows == parenttable.rows
            count == HeaderCount(ctor.headers)
        IN  /\ Len(rows) = count + Len(rowsetsarg)
            /\ \A h \in 1..count : IsHeaderRowOf(rows[h], HeaderRowsGiven(ctor.headers)[h])
            /\ \A i \in 1..Len(rowsetsarg) : IsRowsetRowOf(rows[count + i], rowsetsarg[i])
            /\ \A i \in 1..Len(rows) - 1 : Band(parenttable, i) # Band(parenttable, i + 1)

\* a header RowSpec, a rowset of two different rows and a bare row gave three outer
\* rows, the second holding two tables
C24_Witness ==
    /\ Returned("PDFTable")
    /\ HeaderCount(ctor.headers) = 1
    /\ Len(rowsetsarg) = 2
    /\ rowsetsarg[1].t = "list" /\ Len(rowsetsarg[1].rows) = 2
    /\ rowsetsarg[1].rows[1] # rowsetsarg[1].rows[2]
    /\ rowsetsarg[2].t = "TableRow"
    /\ Len(result.value.parenttable.rows) = 3
    /\ Len(result.value.parenttable.rows[2].tables) = 2

\* two different header RowSpecs and a rowset of two rows gave three outer rows
C24_WitnessTwoHeaders ==
    /\ Returned("PDFTable")
    /\ HeaderCount(ctor.headers) = 2
    /\ ctor.headers.rows[1] # ctor.headers.rows[2]
    /\ Len(rowsetsarg) = 1 /\ RowCount(rowsetsarg[1]) = 2
    /\ Len(result.value.parenttable.rows) = 3

\* the width of a style in points: 72 per inch of the width option given to it, and
\* None when none (or None) was given
WidthOf(cellstyle) ==
    IF "width" \in DOMAIN cellstyle.properties /\ cellstyle.properties["width"] # None
    THEN IntVal(cellstyle.properties["width"].n * 72)
    ELSE None
\* the tables of the TableRows of the input, in order
SubrowTables(parenttable, headers, rs) ==
    Flatten([i \in 1..Len(rs) |-> parenttable.rows[HeaderCount(headers) + i].tables])

\* C25: in PDFTable.render the colWidths of the table of a header RowSpec (of at
\* least one column) are the widths of its ColumnSpecs in points, except the last,
\* which is None (automatic) whether or not a width was given for it; the colWidths
\* of the table of a data row are the widths of its cells, the last one included.
C25_LastHeaderWidthAutomatic ==
    Returned("PDFTable") =>
        LET parenttable == result.value.parenttable
            headers == HeaderRowsGiven(ctor.headers)
            rows == InputRows(rowsetsarg)
            tables == SubrowTables(parenttable, ctor.headers, rowsetsarg)
        IN  /\ \A h \in 1..Len(headers) :
                  /\ Len(headers[h]) >= 1
                  /\ parenttable.rows[h].tables[1].colWidths
                         = [i \in 1..Len(headers[h]) |->
                               IF i = Len(headers[h]) THEN None
                               ELSE WidthOf(headers[h][i].style)]
            /\ Len(tables) = Len(rows)
            /\ \A j \in 1..Len(rows) :
                  tables[j].colWidths = [k \in 1..Len(rows[j]) |-> WidthOf(rows[j][k].style)]

\* a header whose two columns were both given the width MaxWidth, and a data row
\* whose last cell was given a width: the header's last width alone is None
C25_Witness ==
    /\ Returned("PDFTable")
    /\ ctor.headers = OneRowSpec(<<ColumnWide, ColumnOne>>)
    /\ WidthOf(ColumnOne.style) = IntVal(MaxWidth * 72)
    /\ rowsetsarg = <<BareRow(WideRow)>>
    /\ result.value.parenttable.rows[1].tables[1].colWidths = <<IntVal(MaxWidth * 72), None>>
    /\ result.value.parenttable.rows[2].tables[1].colWidths
           = <<IntVal(MaxWidth * 72), IntVal(72)>>

(***************************************************************************)
(* What the claims say of _cast and _getstyle.                             *)
(***************************************************************************)
\* the raw option was given to the cell's style with a true value
RawSet(c) == "raw" \in DOMAIN c.style.properties /\ Truthy(c.style.properties["raw"])
\* the text the claim has formatted: that of the formatter registered for the exact
\* type of the value, else that of generic string conversion
FormattedText(functions, value) ==
    IF value.t \in DOMAIN functions
    THEN CASE functions[value.t] = "angle" -> <<"<">> \o Unicode(value) \o <<">">>
           [] OTHER -> <<"&">> \o Unicode(value)
    ELSE Unicode(value)

\* C26: _cast returns, for a cell that is not raw and whose value is not None, the
\* escaped text of the formatter registered in castfunctions for the value's exact
\* type (of unicode when none is registered): the formatter's result is escaped,
\* not its argument; for a raw cell it returns the value itself, unformatted and
\* unescaped.
C26_CastFormatsThenEscapes ==
    kpc = "cast" =>
        LET value == castcell.value
        IN  /\ RawSet(castcell) => casted = value
            /\ (~RawSet(castcell) /\ value # None) =>
                  casted = StrVal(Escaped(FormattedText(castfunctions, value)))

\* 5 was cast under a formatter registered for int that puts it in angle brackets,
\* which come out escaped
C26_Witness ==
    /\ kpc = "cast"
    /\ "int" \in DOMAIN castfunctions /\ castfunctions["int"] = "angle"
    /\ castcell.value = IntVal(5) /\ ~RawSet(castcell)
    /\ casted = StrVal(<<"&", "l", "t", ";", "5", "&", "g", "t", ";">>)

\* True was cast under a formatter registered for int alone: bool is another type,
\* so generic string conversion was used
C26_WitnessExactType ==
    /\ kpc = "cast"
    /\ DOMAIN castfunctions = {"int"}
    /\ castcell.value = BoolVal(TRUE) /\ ~RawSet(castcell)
    /\ casted = StrVal(<<"T", "r", "u", "e">>)

\* a raw text was cast under a formatter registered for str and came back as it was
C26_WitnessRaw ==
    /\ kpc = "cast"
    /\ "str" \in DOMAIN castfunctions
    /\ castcell.value = StrVal(<<"<", "&">>) /\ RawSet(castcell)
    /\ casted = castcell.value

\* the bold/money combination of a cell, as _getstyle's key: the sorted tuple
CombinationOf(c) ==
    (IF IsSet(c, "bold") THEN <<"bold">> ELSE <<>>)
    \o (IF IsSet(c, "money") THEN <<"money">> ELSE <<>>)
\* the default style with what the claim gives the combination K
StyleFor(default, K) ==
    LET has(a) == \E i \in 1..Len(K) : K[i] = a
    IN  [num_format_str |-> IF has("money") THEN "0.00" ELSE default.num_format_str,
         bold |-> IF has("bold") THEN 1 ELSE default.bold,
         horz |-> IF has("money") THEN "right" ELSE default.horz]

\* C27: after any sequence of _getstyle calls every style table still has its default
\* entry (key None) as the class defines it, and every other entry, under a
\* combination K of bold and money, is that default with the bold font set iff bold
\* is in K and with right alignment and the format '0.00' set iff money is in K; a
\* call returns the entry of its combination in the table its value's exact type
\* selects (the default table when the type has none), touching no other table, and
\* when the entry was there before the call it returns that entry and changes
\* nothing.
C27_CachedStylesFromDefaults ==
    /\ DOMAIN styletypemap = DOMAIN StyleTypeMapInit
    /\ \A typ \in DOMAIN styletypemap :
          /\ styletypemap[typ][NoneKey] = StyleTypeMapInit[typ][NoneKey]
          /\ \A K \in DOMAIN styletypemap[typ] \ {NoneKey} :
                styletypemap[typ][K] = StyleFor(StyleTypeMapInit[typ][NoneKey], K)
    /\ stylecell \in StyleCells =>
          LET typ == TableOf(stylecell.value)
              K == CombinationOf(stylecell)
          IN  /\ K \in DOMAIN styletypemap[typ]
              /\ styled = styletypemap[typ][K]
              /\ \A other \in DOMAIN styletypemap \ {typ} :
                    styletypemap[other] = cachebefore[other]
              /\ K \in DOMAIN cachebefore[typ] =>
                    /\ styled = cachebefore[typ][K]
                    /\ styletypemap = cachebefore

\* a bold money date was styled a second time: the call returned the cached entry,
\* the date table's default with bold, right alignment and '0.00', and added nothing
C27_Witness ==
    /\ stylecell.value = DateVal
    /\ CombinationOf(stylecell) = <<"bold", "money">>
    /\ <<"bold", "money">> \in DOMAIN cachebefore["date"]
    /\ styletypemap = cachebefore
    /\ styled = [num_format_str |-> "0.00", bold |-> 1, horz |-> "right"]
    /\ styletypemap["date"][NoneKey] = [num_format_str |-> "YYYY-MM-DD", bold |-> 0,
                                        horz |-> "general"]

\* a bold int, whose type has no table, was styled from the default table
C27_WitnessDefaultTable ==
    /\ stylecell.value = IntVal(5)
    /\ CombinationOf(stylecell) = <<"bold">>
    /\ <<"bold">> \notin DOMAIN cachebefore["None"]
    /\ styletypemap["None"][<<"bold">>] = [num_format_str |-> "General", bold |-> 1,
                                           horz |-> "general"]
    /\ styled = styletypemap["None"][<<"bold">>]

\* a datetime without bold or money was styled from its own table, not from the
\* table of date: the entry of the empty combination has the datetime format
C27_WitnessExactType ==
    /\ stylecell.value = DateTimeVal
    /\ CombinationOf(stylecell) = <<>>
    /\ styled.num_format_str = "YYYY-MM-DD HH:MM:SS"
    /\ <<>> \in DOMAIN styletypemap["datetime"]

\* the sheet rows of the writes, in the order of writing
RowsOf(written) == [k \in 1..Len(written) |-> written[k].row]
IsExplanationWrite(w) == w.by = "explanation"

\* C28: SpreadsheetTable.render writes the explanation, if there is one, to sheet
\* row 0 and leaves row 1 blank; the header RowSpecs follow, one sheet row each, from
\* row 2 with an explanation and from row 0 without; the TableRows follow, one sheet
\* row each, the rows of multi-row rowsets in order: the j-th TableRow (from 0) is
\* written to row (2 if explanation else 0) + number of header RowSpecs + j, and no
\* two header or data rows share a sheet row.
C28_RowCounter ==
    Returned("SpreadsheetTable") =>
        LET cells == result.value.cells
            headers == HeaderRowsGiven(ctor.headers)
            rows == InputRows(rowsetsarg)
            first == IF Truthy(ctor.explanation) THEN 2 ELSE 0
            headerrow(h) == first + h - 1
            datarow(j) == first + Len(headers) + j
        IN  /\ RowsOf(SelectSeq(cells, IsExplanationWrite))
                  = (IF Truthy(ctor.explanation) THEN <<0>> ELSE <<>>)
            /\ Truthy(ctor.explanation) => \A k \in 1..Len(cells) : cells[k].row # 1
            /\ RowsOf(SelectSeq(cells, IsHeaderWrite))
                  = Flatten([h \in 1..Len(headers) |-> Repeat(headerrow(h), Len(headers[h]))])
            /\ RowsOf(SelectSeq(cells, IsCellWrite))
                  = Flatten([i \in 1..Len(rows) |-> Repeat(datarow(i - 1), Len(rows[i]))])
            /\ \A h \in 1..Len(headers), i \in 1..Len(rows) : headerrow(h) # datarow(i - 1)
            /\ \A k, l \in 1..Len(cells) :
                  (cells[k].row = cells[l].row /\ k < l) =>
                      /\ cells[k].by = cells[l].by
                      /\ \A m \in k..l : cells[m].row = cells[k].row

\* with an explanation and one header RowSpec, a rowset of two rows and a bare row
\* were written to the sheet rows 3, 4 and 5
C28_Witness ==
    /\ Returned("SpreadsheetTable")
    /\ Truthy(ctor.explanation)
    /\ HeaderCount(ctor.headers) = 1
    /\ Len(rowsetsarg) = 2
    /\ rowsetsarg[1].t = "list" /\ Len(rowsetsarg[1].rows) = 2
    /\ rowsetsarg[2].t = "TableRow"
    /\ RowsOf(result.value.cells) = <<0, 2, 2, 3, 3, 4, 4, 5, 5>>

\* without an explanation and with two header RowSpecs the first data row was
\* written to sheet row 2
C28_WitnessTwoHeaders ==
    /\ Returned("SpreadsheetTable")
    /\ ~Truthy(ctor.explanation)
    /\ HeaderCount(ctor.headers) = 2
    /\ Len(HeaderRowsGiven(ctor.headers)[1]) = 2 /\ Len(HeaderRowsGiven(ctor.headers)[2]) = 2
    /\ Len(InputRows(rowsetsarg)) = 1
    /\ RowsOf(result.value.cells) = <<0, 0, 1, 1, 2, 2>>

\* the lines of a kind
LinesOf(lines, kind) == SelectSeq(lines, LAMBDA l : l.kind = kind)

\* C29: HTMLTable.render escapes cell values only: the title in the h2 block and in
\* the summary attribute of the table element, the explanation and the title of
\* every header column appear in the output character for character as given,
\* whether or not the column's raw option is set, while the value of a cell that is
\* not raw appears escaped.
C29_OnlyCellValuesEscaped ==
    Returned("HTMLTable") =>
        LET lines == result.value
            columns == Flatten(HeaderRowsGiven(ctor.headers))
            cells == InputCells(rowsetsarg)
            ths == HeaderCellLines(lines)
            tds == CellLines(lines)
        IN  /\ [k \in 1..Len(LinesOf(lines, "h2")) |-> LinesOf(lines, "h2")[k].content]
                  = (IF Truthy(ctor.title) THEN <<ctor.title.s>> ELSE <<>>)
            /\ [k \in 1..Len(LinesOf(lines, "table")) |-> LinesOf(lines, "table")[k].content]
                  = (IF Truthy(ctor.title) THEN <<ctor.title.s>> ELSE <<<<>>>>)
            /\ [k \in 1..Len(LinesOf(lines, "p")) |-> LinesOf(lines, "p")[k].content]
                  = (IF Truthy(ctor.explanation) THEN <<ctor.explanation.s>> ELSE <<>>)
            /\ Len(ths) = Len(columns)
            /\ \A k \in 1..Len(columns) :
                  columns[k].title.t = "str" => ths[k].content = columns[k].title.s
            /\ Len(tds) = Len(cells)
            /\ \A k \in 1..Len(cells) :
                  (~RawSet(cells[k]) /\ cells[k].value # None) =>
                      tds[k].content = LineBreaks(Escaped(Unicode(cells[k].value)))

\* the title '&', the explanation '<', the header titles '<' (not raw) and '&' (raw)
\* came out as they are, over a cell '<' that came out as '&lt;'
C29_Witness ==
    /\ Returned("HTMLTable")
    /\ ctor.title = StrVal(<<"&">>) /\ ctor.explanation = StrVal(<<"<">>)
    /\ ctor.headers = OneRowSpec(<<ColumnWide, ColumnOne>>)
    /\ ~RawSet(ColumnWide) /\ RawSet(ColumnOne)
    /\ rowsetsarg = <<BareRow(WideRow)>>
    /\ WideRow.cells[1].value = StrVal(<<"<">>)
    /\ [k \in 1..3 |-> result.value[k]]
           = <<Line("h2", <<>>, 0, <<"&">>), Line("p", <<>>, 0, <<"<">>),
               Line("table", <<"reporttable">>, 0, <<"&">>)>>
    /\ HeaderCellLines(result.value)[1].content = <<"<">>
    /\ HeaderCellLines(result.value)[2].content = <<"&">>
    /\ CellLines(result.value)[1].content = <<"&", "l", "t", ";">>
====
